---- MODULE Spec2Model ----
(***************************************************************************)
(* A model of the prestoplot grammar engine: the production factories of   *)
(* db.py (ratchet, pick, choose), the lazy Database resolver with its      *)
(* scoped context, the include-merging grammar parser of grammars.py and   *)
(* the story renderer of story.py.                                         *)
(*                                                                         *)
(* Strings are sequences of tokens.  A token is a piece of literal text or *)
(* a brace span "{name}" / "{name.attr}" of a template.  A value is a      *)
(* record: a plain (rendered) string, or a Text object that still has to   *)
(* be rendered.                                                            *)
(***************************************************************************)
EXTENDS Integers, Sequences, FiniteSets, TLC

VARIABLES
    ritems,     \* ratchet factory -> the items list its closure captured
    rindex,     \* ratchet factory -> state['index'] of its closure
    rlog,       \* ratchet factory -> the results it returned, in call order
    pitems,     \* the mutable list captured by the pick factory
    porig,      \* the list as it was when the pick factory was built
    ppicked,    \* the elements picker popped, in call order
    presults,   \* the values picker returned, in call order
    storage,    \* module name -> the document the storage holds for it
    phase,      \* where render_story stands: "idle", "parse", "parsed", "render"
    args,       \* the arguments of the render_story call in progress
    ctx,        \* the context dict shared by the whole container graph
    included,   \* parse_grammar_file's set of modules already visited
    pstack,     \* the parse_grammar_file activations in progress
    rstack,     \* the rendering activations in progress
    outcomes,   \* what each finished render_story call returned or raised
    hist,       \* history of the call in progress: loads, merges, renders, draws
    disk,       \* directory -> the YAML files and the compiled files in it
    modules,    \* the class-level _modules dicts of the caching storages
    heap,       \* the document objects alive: those cached and those returned
    resolved,   \* the resolve_module calls made, with what each returned
    edits,      \* the number of changes made to files
    call,       \* the arguments of the function applied
    ret         \* what the function returned or raised

factoryVars == <<ritems, rindex, rlog, pitems, porig, ppicked, presults>>

storyVars == <<storage, phase, args, ctx, included, pstack, rstack, outcomes, hist>>

storeVars == <<disk, modules, heap, resolved, edits>>

callVars == <<call, ret>>

vars == <<ritems, rindex, rlog, pitems, porig, ppicked, presults,
          storage, phase, args, ctx, included, pstack, rstack, outcomes, hist,
          disk, modules, heap, resolved, edits, call, ret>>

-----------------------------------------------------------------------------
(* Bounds of the model. *)

\* longest items list handed to a ratchet or pick factory
MaxLen == 2
\* calls made to one ratchet factory
MaxCalls == 5

-----------------------------------------------------------------------------
(* Values. *)

\* literal text
Lit(s) == [k |-> "lit", s |-> s, attr |-> "", syn |-> ""]
\* the f-string span {n} or {n.a}
Ref(n, a) == [k |-> "ref", s |-> n, attr |-> a, syn |-> "f"]
\* the Jinja2 span {{ n }} or {{ n.a }}
JRef(n, a) == [k |-> "ref", s |-> n, attr |-> a, syn |-> "j"]

\* texts.RenderedStr: a str subclass, no further rendering
RenderedStr(toks) == [t |-> "str", v |-> toks, strat |-> ""]

\* texts.Text: value kept raw until render()
Text(toks) == [t |-> "text", v |-> toks, strat |-> "identity"]

\* texts.is_text = isa(Text)
is_text(x) == x.t = "text"

\* Text.render of the base class: RenderedStr(self.transformer(self.value)),
\* the transformer being funcy's identity
TextRender(x) == RenderedStr(x.v)

EmptyStr == RenderedStr(<< >>)

\* the item values the factories of the factory specifications are built over
ItemPool == { RenderedStr(<<Lit("a")>>), RenderedStr(<<Lit("b")>>), Text(<<Lit("c")>>) }

RECURSIVE ListsUpTo(_, _)
ListsUpTo(S, n) ==
    IF n = 0 THEN { << >> }
    ELSE LET shorter == ListsUpTo(S, n - 1)
         IN shorter \cup { Append(l, x) : l \in { m \in shorter : Len(m) = n - 1 }, x \in S }

-----------------------------------------------------------------------------
(* Seeds and the seeded random source. *)

\* a seed is a str; the text of its tokens decides the random stream
BaseSeeds == { RenderedStr(<<Lit("s1")>>), RenderedStr(<<Lit("s2")>>), RenderedStr(<<Lit("s3")>>) }

TokenCode(tok) ==
    CASE tok = "s1" -> 1
      [] tok = "s2" -> 2
      [] tok = "s3" -> 3
      [] tok = "x"  -> 5
      [] tok = "y"  -> 8
      [] tok = "-"  -> 1
      [] OTHER      -> 11

RECURSIVE SeedHash(_)
SeedHash(toks) ==
    IF toks = << >> THEN 0
    ELSE (SeedHash(Tail(toks)) * 7 + TokenCode(Head(toks).s)) % 1009

\* random.Random(seed): the stream is a fixed function of the seed string;
\* its first _randbelow(n) serves both rng.choice and rng.randint(0, n - 1)
RandBelow(seed, n) == SeedHash(seed.v) % n

\* no render_story call is made in the factory specifications
StoryIdle ==
    /\ storage = << >>
    /\ phase = "off"
    /\ args = << >>
    /\ ctx = << >>
    /\ included = {}
    /\ pstack = << >>
    /\ rstack = << >>
    /\ outcomes = << >>
    /\ hist = << >>

\* no storage other than the plain FileStorage of the story is used
StoreIdle ==
    /\ disk = << >>
    /\ modules = << >>
    /\ heap = << >>
    /\ resolved = << >>
    /\ edits = 0

\* no function is applied on its own
CallIdle ==
    /\ call = << >>
    /\ ret = << >>

-----------------------------------------------------------------------------
(* db.ratchet *)

RatchetFactories == { "ra", "rb" }

RatchetAdvanceOffByOne(idx, n) == IF idx + 1 >= n - 1 THEN 0 ELSE idx + 1

\* state['index'] = (state['index'] + 1) % len(items)
RatchetAdvance(idx, n) == (idx + 1) % n

\* the value ratcheter returns: '' for no items, else items[index], rendered
\* when it is a Text
RatcheterResult(items, idx) ==
    IF items = << >> THEN EmptyStr
    ELSE LET result == items[idx + 1]
         IN IF is_text(result) THEN TextRender(result) ELSE result

RatchetStateShared(index, f, items) ==
    [g \in DOMAIN index |-> IF items = << >> THEN index[g]
                            ELSE RatchetAdvance(index[f], Len(items))]

\* the index function after factory f's ratcheter ran: only f's own closure
\* state changes, and not at all for an empty list (early return)
RatchetStateAfter(index, f, items) ==
    IF items = << >> THEN index
    ELSE [index EXCEPT ![f] = RatchetAdvance(index[f], Len(items))]

ratcheter(f) ==
    /\ Len(rlog[f]) < MaxCalls
    /\ rlog' = [rlog EXCEPT ![f] = Append(@, RatcheterResult(ritems[f], rindex[f]))]
    /\ rindex' = RatchetStateAfter(rindex, f, ritems[f])
    /\ UNCHANGED <<ritems, pitems, porig, ppicked, presults>>
    /\ UNCHANGED <<storyVars, storeVars, callVars>>

InitRatchet ==
    /\ ritems \in [RatchetFactories -> ListsUpTo(ItemPool, MaxLen)]
    /\ rindex = [f \in RatchetFactories |-> 0]
    /\ rlog = [f \in RatchetFactories |-> << >>]
    /\ pitems = << >>
    /\ porig = << >>
    /\ ppicked = << >>
    /\ presults = << >>
    /\ StoryIdle
    /\ StoreIdle
    /\ CallIdle

NextRatchet == \E f \in RatchetFactories : ratcheter(f)

SpecRatchet == InitRatchet /\ [][NextRatchet]_vars

-----------------------------------------------------------------------------
(* db.pick *)

RemoveAt(items, i) == SubSeq(items, 1, i - 1) \o SubSeq(items, i + 1, Len(items))

PickPopLast(items, idx) == SubSeq(items, 1, Len(items) - 1)

\* items.pop(idx), idx counted from 0
PickPop(items, idx) == RemoveAt(items, idx + 1)

\* idx = rng.randint(0, len(items) - 1) if len(items) > 1 else 0
PickIndex(seed, items) == IF Len(items) > 1 THEN RandBelow(seed, Len(items)) ELSE 0

\* picker(context): pops one element and returns it, rendered when a Text.
\* Popping from an empty list raises IndexError: no state changes.
picker(seed) ==
    /\ pitems # << >>
    /\ LET idx == PickIndex(seed, pitems)
           result == pitems[idx + 1]
       IN /\ pitems' = PickPop(pitems, idx)
          /\ ppicked' = Append(ppicked, result)
          /\ presults' = Append(presults, IF is_text(result) THEN TextRender(result) ELSE result)
    /\ UNCHANGED <<ritems, rindex, rlog, porig>>
    /\ UNCHANGED <<storyVars, storeVars, callVars>>

InitPick ==
    /\ porig \in ListsUpTo(ItemPool, MaxLen + 2)
    /\ pitems = porig
    /\ ppicked = << >>
    /\ presults = << >>
    /\ ritems = << >>
    /\ rindex = << >>
    /\ rlog = << >>
    /\ StoryIdle
    /\ StoreIdle
    /\ CallIdle

NextPick == \E seed \in BaseSeeds : picker(seed)

SpecPick == InitPick /\ [][NextPick]_vars

-----------------------------------------------------------------------------
(* The context dict: contexts.py and seeds.py *)

NoneVal == [t |-> "none", v |-> << >>, strat |-> ""]

\* dict.get(key): None for an absent key
CtxGet(c, k) == IF k \in DOMAIN c THEN c[k] ELSE NoneVal

\* dict item assignment c[k] = x
CtxSet(c, k, x) == [n \in DOMAIN c \cup {k} |-> IF n = k THEN x ELSE c[n]]

\* seeds.set_seed with a str seed stores it as it is; contexts.get_context
\* starts from the keyword parameters alone
get_context(seed) == CtxSet(<< >>, "seed", seed)

\* Database.__getattr__: seed = f'{self.context["seed"]}-{attr}'
DerivedSeed(c, attr) == RenderedStr(c["seed"].v \o <<Lit("-"), Lit(attr)>>)

\* update_context on entry: old_ctx = {key: ctx.get(key) for key in kwargs}
OldCtx(c) == [key |-> CtxGet(c, "key"), seed |-> CtxGet(c, "seed")]

CtxEnterKeyOnly(c, attr) == CtxSet(c, "key", RenderedStr(<<Lit(attr)>>))

\* update_context on entry: ctx.update(kwargs) with key=attr, seed=seed
CtxEnter(c, attr) ==
    CtxSet(CtxSet(c, "key", RenderedStr(<<Lit(attr)>>)), "seed", DerivedSeed(c, attr))

CtxExitKeyOnly(c, old) == CtxSet(c, "key", old.key)

\* update_context after the yield: ctx.update(old_ctx)
CtxExit(c, old) == CtxSet(CtxSet(c, "key", old.key), "seed", old.seed)

-----------------------------------------------------------------------------
(* Grammar documents and storage: storages.FileStorage *)

Modules == { "main", "a", "b" }

\* a raw value of a document, as yaml.safe_load builds it: a string; a list
\* of raw values, with its {mode: ...} marker element when marker is not "";
\* a mapping, its entries in order; a boolean; a number; null
RawStr(toks) == [shape |-> "str", text |-> toks]
RawListOf(marker, raws) == [shape |-> "list", marker |-> marker, items |-> raws]
RawMap(entries) == [shape |-> "map", entries |-> entries]
RawBool(b) == [shape |-> "bool", b |-> b]
RawInt(n) == [shape |-> "int", n |-> n]
RawNull == [shape |-> "null"]

\* a list of strings
RawList(marker, items) ==
    RawListOf(marker, [i \in 1 .. Len(items) |-> RawStr(items[i])])

Stanza(key, raw) == [key |-> key, raw |-> raw]

\* a document: render = "" stands for a document without a render entry
Doc(include, render, stanzas) == [include |-> include, render |-> render, stanzas |-> stanzas]

\* what the parser's pops leave of a document object: doc.pop('include'),
\* doc.pop('render') and value.pop(0) of every mode marker
RECURSIVE MarkersPopped(_)
\* get_list_setting's value.pop(0) on every list parse_value visits
MarkersPopped(raw) ==
    CASE raw.shape = "list" /\ raw.marker \in { "", "reuse", "pick" } ->
            RawListOf("", [i \in 1 .. Len(raw.items) |-> MarkersPopped(raw.items[i])])
      [] raw.shape = "list" -> RawListOf("", raw.items)
      [] raw.shape = "map" ->
            RawMap([i \in 1 .. Len(raw.entries) |->
                       [key |-> raw.entries[i].key,
                        raw |-> MarkersPopped(raw.entries[i].raw)]])
      [] OTHER -> raw

DocAfterParse(doc) ==
    Doc(<< >>, "", [i \in 1 .. Len(doc.stanzas) |->
                      Stanza(doc.stanzas[i].key, MarkersPopped(doc.stanzas[i].raw))])

StorageAliased(st, name) == [st EXCEPT ![name] = DocAfterParse(st[name])]

\* FileStorage.resolve_module loads the YAML file anew on every call: the
\* document handed out is the caller's own, and popping from it leaves what
\* the storage returns next time as it was
StorageAfterResolve(st, name) == st

-----------------------------------------------------------------------------
(* grammars.py: parse_value and its helpers *)

IsWs(tok) == tok.k = "lit" /\ tok.s \in { " ", "\n" }

RECURSIVE LStrip(_)
LStrip(toks) ==
    IF toks # << >> /\ IsWs(Head(toks)) THEN LStrip(Tail(toks)) ELSE toks

RECURSIVE RStrip(_)
RStrip(toks) ==
    IF toks # << >> /\ IsWs(toks[Len(toks)])
    THEN RStrip(SubSeq(toks, 1, Len(toks) - 1)) ELSE toks

IsSpace(tok) == tok.k = "lit" /\ tok.s = " "
IsNewline(tok) == tok.k = "lit" /\ tok.s = "\n"

RECURSIVE SplitLines(_)
\* the lines of a text, without their newlines
SplitLines(toks) ==
    LET brk == { i \in 1 .. Len(toks) : IsNewline(toks[i]) }
    IN IF brk = {} THEN << toks >>
       ELSE LET i == CHOOSE j \in brk : \A k \in brk : j <= k
            IN << SubSeq(toks, 1, i - 1) >> \o SplitLines(SubSeq(toks, i + 1, Len(toks)))

RECURSIVE JoinLines(_)
JoinLines(lines) ==
    IF Len(lines) = 1 THEN lines[1]
    ELSE lines[1] \o << [k |-> "lit", s |-> "\n", attr |-> "", syn |-> ""] >>
                  \o JoinLines(Tail(lines))

\* a line of spaces only (or an empty one)
BlankLine(line) == \A i \in 1 .. Len(line) : IsSpace(line[i])

\* the number of spaces a line starts with
Indent(line) ==
    Cardinality({ i \in 1 .. Len(line) : \A j \in 1 .. i : IsSpace(line[j]) })

\* the lines of a text without the indentation common to those that are
\* not blank; blank lines become empty
Dedented(lines) ==
    LET full == { i \in 1 .. Len(lines) : ~BlankLine(lines[i]) }
        margin == IF full = {} THEN 0
                  ELSE Indent(lines[CHOOSE i \in full :
                                        \A j \in full : Indent(lines[i]) <= Indent(lines[j])])
    IN JoinLines([i \in 1 .. Len(lines) |->
                     IF i \in full
                     THEN SubSeq(lines[i], margin + 1, Len(lines[i]))
                     ELSE << >>])

\* textwrap.dedent: lines of whitespace only become empty, and the
\* indentation common to all other lines is removed from each (the lines
\* are bound as a value, so they are split once)
dedent(toks) ==
    CHOOSE r \in { Dedented(lines) : lines \in { SplitLines(toks) } } : TRUE

\* fix_text: textwrap.dedent(text).strip()
fix_text(toks) ==
    CHOOSE r \in { RStrip(l) : l \in { LStrip(d) : d \in { dedent(toks) } } } : TRUE

\* texts.RenderableText(value, grammar_path, context, render_strategy=...):
\* context is a reference to the shared dict; seen records the names the
\* dict bound when the text was built
RenderableText(toks, path, strat, c) ==
    [t |-> "text", v |-> toks, strat |-> strat, path |-> path, seen |-> DOMAIN c]

\* db.Database(factory, grammar_path, context): the factory's closure state
\* (the items list, the ratchet index) and an empty cache
Database(mode, items, path) ==
    [t |-> "db", mode |-> mode, items |-> items, index |-> 0,
     cache |-> << >>, path |-> path]

\* the variant that takes a marker of an unknown mode for no marker
ListModeKnown(raw) ==
    IF raw.marker \in { "pick", "markov", "ratchet", "list" } THEN raw.marker ELSE "reuse"

\* get_list_setting: 'reuse' unless the list is headed by a mode marker
ListMode(raw) == IF raw.marker = "" THEN "reuse" ELSE raw.marker

\* db.Datalist(grammar_path, context, items) and db.Databag(grammar_path,
\* context, entries)
Datalist(items, path) == [t |-> "datalist", items |-> items, path |-> path]
Databag(entries, path) == [t |-> "databag", items |-> entries, path |-> path]

\* a boolean is passed through as it is
BoolVal(b) == [t |-> "bool", v |-> b]

\* an exception raised while a value is parsed
ParseFailure(err) == [t |-> "error", err |-> err]

\* str(v) of a raw list element, for RenderedStr(v)
StrOf(raw) ==
    CASE raw.shape = "str" -> raw.text
      [] raw.shape = "int" -> << [k |-> "lit", s |-> ToString(raw.n), attr |-> "", syn |-> ""] >>
      [] raw.shape = "bool" -> << [k |-> "lit", s |-> IF raw.b THEN "True" ELSE "False", attr |-> "", syn |-> ""] >>
      [] raw.shape = "null" -> << [k |-> "lit", s |-> "None", attr |-> "", syn |-> ""] >>
      [] OTHER -> << [k |-> "lit", s |-> "repr", attr |-> "", syn |-> ""] >>

\* the first exception among parsed children, in order, if there is one
FirstFailure(kids) ==
    LET bad == { i \in 1 .. Len(kids) : kids[i].t = "error" }
    IN IF bad = {} THEN ParseFailure("")
       ELSE kids[CHOOSE i \in bad : \A j \in bad : i <= j]

RECURSIVE parse_value(_, _, _, _)
\* parse_value: dispatch on the shape of the raw value; a list of an
\* unknown mode falls through to return None, and a value that is not a
\* list, a mapping, a boolean or a string makes textwrap.dedent raise
\* TypeError
parse_value(raw, path, strat, c) ==
    CASE raw.shape = "list" ->
            LET mode == ListMode(raw)
                strs == [i \in 1 .. Len(raw.items) |-> RenderedStr(StrOf(raw.items[i]))]
            IN CASE mode \in { "reuse", "pick" } ->
                       CHOOSE r \in
                          { IF FirstFailure(kids).err # "" THEN FirstFailure(kids)
                            ELSE Database(mode, kids, path) :
                              kids \in { [i \in 1 .. Len(raw.items) |->
                                            parse_value(raw.items[i], path, strat, c)] } } :
                          TRUE
                 [] mode \in { "markov", "ratchet" } -> Database(mode, strs, path)
                 [] mode = "list" -> Datalist(strs, path)
                 [] OTHER -> NoneVal
      [] raw.shape = "map" ->
            LET kids == [i \in 1 .. Len(raw.entries) |->
                            parse_value(raw.entries[i].raw, path, strat, c)]
            IN IF FirstFailure(kids).err # "" THEN FirstFailure(kids)
               ELSE Databag([i \in 1 .. Len(raw.entries) |->
                                [key |-> raw.entries[i].key, val |-> kids[i]]], path)
      [] raw.shape = "bool" -> BoolVal(raw.b)
      [] raw.shape = "str" -> RenderableText(fix_text(raw.text), path, strat, c)
      [] OTHER -> ParseFailure("TypeError")

RenderStrategyLax(render_mode) ==
    CASE render_mode = "ftemplate" -> "ftemplate"
      [] render_mode \in { "jinja2", "jinja" } -> "jinja2"
      [] OTHER -> "ftemplate"

\* parse_render_strategy: "error" stands for raising ValueError
parse_render_strategy(render_mode) ==
    CASE render_mode = "ftemplate" -> "ftemplate"
      [] render_mode \in { "jinja2", "jinja" } -> "jinja2"
      [] OTHER -> "error"

\* f'{grammar_path}:{key}'
StanzaPath(mod, key) == <<mod, key>>

RECURSIVE parse_data_keep(_, _, _, _)
parse_data_keep(stanzas, mod, c, strat) ==
    IF stanzas = << >> THEN c
    ELSE parse_data_keep(Tail(stanzas), mod,
                         IF Head(stanzas).key \in DOMAIN c THEN c
                         ELSE CtxSet(c, Head(stanzas).key,
                                     parse_value(Head(stanzas).raw,
                                                 StanzaPath(mod, Head(stanzas).key),
                                                 strat, c)),
                         strat)

RECURSIVE parse_data(_, _, _, _)
\* parse_data: context[key] = parse_value(...) for every entry, in order,
\* up to the first entry whose parse_value raises (the parsed value v and
\* the context cc after the assignment are bound as values)
parse_data(stanzas, mod, c, strat) ==
    IF stanzas = << >> THEN c
    ELSE CHOOSE r \in
            { IF v.t = "error" THEN c
              ELSE CHOOSE rest \in
                      { parse_data(Tail(stanzas), mod, cc, strat) :
                          cc \in { CtxSet(c, Head(stanzas).key, v) } } : TRUE :
                v \in { parse_value(Head(stanzas).raw,
                                    StanzaPath(mod, Head(stanzas).key), strat, c) } } : TRUE

parse_data_failure(stanzas, mod, strat) ==
    FirstFailure([i \in 1 .. Len(stanzas) |->
                     parse_value(stanzas[i].raw, StanzaPath(mod, stanzas[i].key),
                                 strat, << >>)])

-----------------------------------------------------------------------------
(* story.render_story, first half: get_context and parse_grammar_file *)

\* the render_story calls of one behaviour
StoryCalls == { 1, 2 }

TopModule == "main"
StartStanza == "Begin"

\* the seeds render_story is called with
StorySeeds == { RenderedStr(<<Lit("s1")>>), RenderedStr(<<Lit("s2")>>) }

HistInit ==
    [loads |-> [m \in Modules |-> 0], merges |-> << >>, visited |-> << >>,
     renders |-> 0, draws |-> 0, fcalls |-> << >>, hits |-> << >>,
     texts |-> << >>]

\* one activation of parse_grammar_file: its document and the position of
\* parse_includes' loop; strat is render_strategy once it is determined
ParseFrame(mod, doc) ==
    [mod |-> mod, include |-> doc.include, i |-> 1, render |-> doc.render,
     stanzas |-> doc.stanzas, strat |-> ""]

PTop == pstack[Len(pstack)]

PAdvance == [pstack EXCEPT ![Len(pstack)].i = @ + 1]

Outcome(status, err, out) ==
    [seed |-> args.seed, status |-> status, err |-> err, out |-> out]

\* an exception leaves render_story: nothing on the way catches it
Raise(err) ==
    /\ outcomes' = Append(outcomes, Outcome("raised", err, << >>))
    /\ phase' = "idle"
    /\ pstack' = << >>
    /\ rstack' = << >>

\* render_story: ctx = get_context(seed), then parse_grammar_file(storage,
\* name, ctx) up to its resolve_module call
render_story(seed) ==
    /\ phase = "idle"
    /\ Len(outcomes) + 1 \in StoryCalls
    /\ args' = [name |-> TopModule, start |-> StartStanza, seed |-> seed]
    /\ ctx' = get_context(seed)
    /\ included' = { TopModule }
    /\ storage' = StorageAfterResolve(storage, TopModule)
    /\ pstack' = << ParseFrame(TopModule, storage[TopModule]) >>
    /\ hist' = [HistInit EXCEPT !.loads[TopModule] = 1]
    /\ phase' = "parse"
    /\ UNCHANGED <<rstack, outcomes>>
    /\ UNCHANGED <<factoryVars, storeVars, callVars>>

NeverIncluded(path, incl) == FALSE

\* grammar_path in included
AlreadyIncluded(path, incl) == path \in incl

\* parse_includes reaches a module that is already in included:
\* parse_grammar_file returns the context unchanged
ParseIncludeSkip ==
    /\ phase = "parse"
    /\ PTop.i <= Len(PTop.include)
    /\ AlreadyIncluded(PTop.include[PTop.i], included)
    /\ pstack' = PAdvance
    /\ UNCHANGED <<storage, phase, args, ctx, included, rstack, outcomes, hist>>
    /\ UNCHANGED <<factoryVars, storeVars, callVars>>

\* parse_includes reaches a new module: included.add, resolve_module, and the
\* recursive parse_grammar_file starts on the document
ParseIncludeLoad ==
    /\ phase = "parse"
    /\ PTop.i <= Len(PTop.include)
    /\ LET inc == PTop.include[PTop.i]
       IN /\ ~AlreadyIncluded(inc, included)
          /\ inc \in DOMAIN storage
          /\ included' = included \cup { inc }
          /\ storage' = StorageAfterResolve(storage, inc)
          /\ pstack' = Append(PAdvance, ParseFrame(inc, storage[inc]))
          /\ hist' = [hist EXCEPT !.loads[inc] = @ + 1,
                                  !.visited = CtxSet(@, inc, <<PTop.mod, PTop.i>>)]
    /\ UNCHANGED <<phase, args, ctx, rstack, outcomes>>
    /\ UNCHANGED <<factoryVars, storeVars, callVars>>

\* resolve_module raises GrammarModuleNotFoundError
ParseIncludeMissing ==
    /\ phase = "parse"
    /\ PTop.i <= Len(PTop.include)
    /\ LET inc == PTop.include[PTop.i]
       IN /\ ~AlreadyIncluded(inc, included)
          /\ inc \notin DOMAIN storage
          /\ included' = included \cup { inc }
          /\ Raise(<<"not_found", inc>>)
    /\ UNCHANGED <<storage, args, ctx, hist>>
    /\ UNCHANGED <<factoryVars, storeVars, callVars>>

\* the variant that takes the top module's render entry for every module
RenderModeOfTop(frame) ==
    IF storage[TopModule].render = "" THEN "ftemplate" ELSE storage[TopModule].render

\* doc.pop('render', 'ftemplate')
RenderMode(frame) == IF frame.render = "" THEN "ftemplate" ELSE frame.render

\* after the includes: parse_render_strategy(doc.pop('render', 'ftemplate'))
ParseStrategy ==
    /\ phase = "parse"
    /\ PTop.i > Len(PTop.include)
    /\ PTop.strat = ""
    /\ LET strat == parse_render_strategy(RenderMode(PTop))
       IN IF strat = "error"
          THEN /\ Raise(<<"bad_render", PTop.mod>>)
               /\ UNCHANGED <<storage, args, ctx, included, hist>>
          ELSE /\ pstack' = [pstack EXCEPT ![Len(pstack)].strat = strat]
               /\ UNCHANGED <<storage, phase, args, ctx, included, rstack, outcomes, hist>>
    /\ UNCHANGED <<factoryVars, storeVars, callVars>>

\* parse_data on the module's remaining entries, and the return to the
\* including module (or to render_story)
ParseData ==
    /\ phase = "parse"
    /\ PTop.i > Len(PTop.include)
    /\ PTop.strat # ""
    /\ ctx' = parse_data(PTop.stanzas, PTop.mod, ctx, PTop.strat)
    /\ LET failure == parse_data_failure(PTop.stanzas, PTop.mod, PTop.strat)
       IN IF failure.err # ""
          THEN /\ Raise(<<failure.err, PTop.mod>>)
               /\ UNCHANGED hist
          ELSE /\ hist' = [hist EXCEPT !.merges = Append(@, PTop.mod)]
               /\ pstack' = SubSeq(pstack, 1, Len(pstack) - 1)
               /\ phase' = IF Len(pstack) = 1 THEN "parsed" ELSE "parse"
               /\ UNCHANGED <<rstack, outcomes>>
    /\ UNCHANGED <<storage, args, included>>
    /\ UNCHANGED <<factoryVars, storeVars, callVars>>

-----------------------------------------------------------------------------
(* story.render_story, second half: str(ctx[start]), that is the rendering  *)
(* cascade through Database.__str__ and __getattr__, the factories of db.py *)
(* and the template strategies of texts.py                                  *)

\* an activation awaiting the result of a Database's factory: kind "str"
\* is Database.__str__, kind "getattr" is Database.__getattr__ on a name
\* that is not cached, old being update_context's old_ctx
DbFrame(kind, name, attr, old) ==
    [kind |-> kind, name |-> name, attr |-> attr, st |-> "call", val |-> NoneVal,
     old |-> old, toks |-> << >>, strat |-> "", pos |-> 0, out |-> << >>,
     seen |-> {}, path |-> << >>, start |-> << >>]

\* an activation of a render strategy on a template: the tokens from pos on
\* are still to be evaluated, out is the text produced so far, start the
\* context the render began with
TmplFrame(text) ==
    [kind |-> "tmpl", name |-> "", attr |-> "", st |-> "", val |-> NoneVal,
     old |-> << >>, toks |-> text.v, strat |-> text.strat, pos |-> 1, out |-> << >>,
     seen |-> text.seen, path |-> text.path, start |-> ctx]

RTop == rstack[Len(rstack)]

RPop == SubSeq(rstack, 1, Len(rstack) - 1)

\* the stack after value v is returned to the activation on top of rest: a
\* template appends str(v) and goes on, a Database activation holds the
\* factory's result
Deliver(rest, v) ==
    IF rest = << >> THEN rest
    ELSE LET top == rest[Len(rest)]
         IN IF top.kind = "tmpl"
            THEN [rest EXCEPT ![Len(rest)] = [top EXCEPT !.out = @ \o v.v, !.pos = @ + 1]]
            ELSE [rest EXCEPT ![Len(rest)] = [top EXCEPT !.st = "got", !.val = v]]

\* value v is returned from the activation on top of the stack; returning
\* from the bottom one ends render_story with str(v)
Return(v) ==
    /\ rstack' = Deliver(RPop, v)
    /\ IF Len(rstack) = 1
       THEN /\ outcomes' = Append(outcomes, Outcome("ok", << >>, v.v))
            /\ phase' = "idle"
       ELSE UNCHANGED <<outcomes, phase>>

\* the activation that evaluates object obj bound to name: Database.__str__
\* for a Database, RenderableText.__str__ (render with its own context) for
\* a text
StrFrame(name, obj) ==
    IF obj.t = "db" THEN DbFrame("str", name, "", << >>)
    ELSE [TmplFrame(obj) EXCEPT !.name = name]

\* render_story: str(ctx[start]); a missing start stanza is a KeyError
StoryStr ==
    /\ phase = "parsed"
    /\ IF args.start \notin DOMAIN ctx
       THEN /\ Raise(<<"KeyError", args.start>>)
            /\ UNCHANGED hist
       ELSE /\ rstack' = << StrFrame(args.start, ctx[args.start]) >>
            /\ phase' = "render"
            /\ hist' = [hist EXCEPT !.renders = @ + (IF ctx[args.start].t = "text" THEN 1 ELSE 0)]
            /\ UNCHANGED <<pstack, outcomes>>
    /\ UNCHANGED <<storage, args, ctx, included>>
    /\ UNCHANGED <<factoryVars, storeVars, callVars>>

\* the item a factory selects and the object it leaves behind; idx = -1
\* stands for the IndexError of choosing or popping from an empty list
FactoryIndex(obj, seed) ==
    CASE obj.mode = "reuse" ->
            IF obj.items = << >> THEN -1 ELSE RandBelow(seed, Len(obj.items))
      [] obj.mode = "pick" ->
            IF obj.items = << >> THEN -1 ELSE PickIndex(seed, obj.items)
      [] OTHER -> obj.index

FactoryObjAfter(obj, idx) ==
    CASE obj.mode = "pick" -> [obj EXCEPT !.items = PickPop(obj.items, idx)]
      [] obj.mode = "ratchet" /\ obj.items # << >> ->
            [obj EXCEPT !.index = RatchetAdvance(obj.index, Len(obj.items))]
      [] OTHER -> obj

\* whether the factory call draws from the random source
FactoryDraws(obj) ==
    \/ obj.mode = "reuse"
    \/ obj.mode = "pick" /\ Len(obj.items) > 1

\* self.factory(self.context): chooser, picker or ratcheter runs up to its
\* return or to the render of the Text it selected
FactoryCall ==
    /\ phase = "render"
    /\ RTop.kind \in { "str", "getattr" }
    /\ RTop.st = "call"
    /\ LET obj == ctx[RTop.name]
           idx == FactoryIndex(obj, ctx["seed"])
       IN IF idx = -1
          THEN /\ Raise(<<"IndexError", RTop.name>>)
               /\ UNCHANGED <<ctx, hist>>
          ELSE /\ ctx' = [ctx EXCEPT ![RTop.name] = FactoryObjAfter(obj, idx)]
               /\ IF obj.mode = "ratchet" /\ obj.items = << >>
                  THEN /\ rstack' = [rstack EXCEPT ![Len(rstack)].st = "got",
                                                   ![Len(rstack)].val = EmptyStr]
                       /\ UNCHANGED hist
                  ELSE LET result == obj.items[idx + 1]
                       IN IF is_text(result)
                          THEN /\ rstack' = Append(
                                    [rstack EXCEPT ![Len(rstack)].st = "wait"],
                                    TmplFrame(result))
                               /\ hist' = [hist EXCEPT
                                    !.renders = @ + 1,
                                    !.draws = @ + (IF FactoryDraws(obj) THEN 1 ELSE 0)]
                          ELSE /\ rstack' = [rstack EXCEPT ![Len(rstack)].st = "got",
                                                           ![Len(rstack)].val = result]
                               /\ hist' = [hist EXCEPT
                                    !.draws = @ + (IF FactoryDraws(obj) THEN 1 ELSE 0)]
               /\ UNCHANGED <<phase, pstack, outcomes>>
    /\ UNCHANGED <<storage, args, included>>
    /\ UNCHANGED <<factoryVars, storeVars, callVars>>

CacheSetNone(obj, attr, v) == obj

\* self.cache[attr] = result
CacheSet(obj, attr, v) == [obj EXCEPT !.cache = CtxSet(@, attr, v)]

\* Database.__str__ returns str(result); Database.__getattr__ leaves
\* update_context, stores the result in the cache and returns it
DbReturn ==
    /\ phase = "render"
    /\ RTop.kind \in { "str", "getattr" }
    /\ RTop.st = "got"
    /\ IF RTop.kind = "str"
       THEN /\ Return(RenderedStr(RTop.val.v))
            /\ UNCHANGED ctx
       ELSE /\ ctx' = [CtxExit(ctx, RTop.old) EXCEPT
                          ![RTop.name] = CacheSet(@, RTop.attr, RTop.val)]
            /\ Return(RTop.val)
    /\ UNCHANGED <<storage, args, included, pstack, hist>>
    /\ UNCHANGED <<factoryVars, storeVars, callVars>>

\* the text a span leaves when the strategy does not evaluate it
AsText(tok) == [tok EXCEPT !.k = "lit"]

\* whether the strategy evaluates the token as an expression
Evaluated(tok, strat) ==
    /\ tok.k = "ref"
    /\ tok.syn = (IF strat = "ftemplate" THEN "f" ELSE "j")

TmplAppend(toks) ==
    rstack' = [rstack EXCEPT ![Len(rstack)].out = @ \o toks,
                             ![Len(rstack)].pos = @ + 1]

\* literal text, or a span of the other strategy's syntax, passes through
TmplLiteral ==
    /\ phase = "render"
    /\ RTop.kind = "tmpl"
    /\ RTop.pos <= Len(RTop.toks)
    /\ ~Evaluated(RTop.toks[RTop.pos], RTop.strat)
    /\ TmplAppend(<< AsText(RTop.toks[RTop.pos]) >>)
    /\ UNCHANGED <<storage, phase, args, ctx, included, pstack, outcomes, hist>>
    /\ UNCHANGED <<factoryVars, storeVars, callVars>>

NamesSeenAtParse(frame) == frame.seen \cap DOMAIN ctx

\* the names a template can use: render passes the shared context dict as
\* it is when the template is rendered (context or self.context), and the
\* strategy evaluates against a copy of it made at that moment
NameSpace(frame) == DOMAIN ctx

\* a span the strategy evaluates but cannot: the context does not bind its
\* name, or it asks a text or a plain string for an attribute it lacks
Unresolvable(tok) ==
    \/ tok.s \notin NameSpace(RTop)
    \/ tok.attr # "" /\ ctx[tok.s].t # "db"

\* the exception of evaluating an unresolvable span
EvalError(tok) ==
    IF tok.s \notin NameSpace(RTop) THEN <<"NameError", tok.s>>
    ELSE <<"AttributeError", tok.s>>

\* render_ftemplate: the NameError or AttributeError of the evaluation is
\* logged and raised again
TmplError ==
    /\ phase = "render"
    /\ RTop.kind = "tmpl"
    /\ RTop.pos <= Len(RTop.toks)
    /\ RTop.strat = "ftemplate"
    /\ Evaluated(RTop.toks[RTop.pos], RTop.strat)
    /\ Unresolvable(RTop.toks[RTop.pos])
    /\ Raise(EvalError(RTop.toks[RTop.pos]))
    /\ UNCHANGED <<storage, args, ctx, included, hist>>
    /\ UNCHANGED <<factoryVars, storeVars, callVars>>

\* render_jinja2: the environment's DebugUndefined renders the span as a
\* visible placeholder
TmplPlaceholder ==
    /\ phase = "render"
    /\ RTop.kind = "tmpl"
    /\ RTop.pos <= Len(RTop.toks)
    /\ RTop.strat = "jinja2"
    /\ Evaluated(RTop.toks[RTop.pos], RTop.strat)
    /\ Unresolvable(RTop.toks[RTop.pos])
    /\ TmplAppend(<< AsText(RTop.toks[RTop.pos]) >>)
    /\ UNCHANGED <<storage, phase, args, ctx, included, pstack, outcomes, hist>>
    /\ UNCHANGED <<factoryVars, storeVars, callVars>>

\* a bare span {name}: the bound object is formatted, that is stringified
TmplBare ==
    /\ phase = "render"
    /\ RTop.kind = "tmpl"
    /\ RTop.pos <= Len(RTop.toks)
    /\ LET tok == RTop.toks[RTop.pos]
       IN /\ Evaluated(tok, RTop.strat)
          /\ tok.s \in NameSpace(RTop)
          /\ tok.attr = ""
          /\ IF ctx[tok.s].t \in { "db", "text" }
             THEN /\ rstack' = Append(rstack, StrFrame(tok.s, ctx[tok.s]))
                  /\ hist' = [hist EXCEPT !.renders = @ + (IF ctx[tok.s].t = "text" THEN 1 ELSE 0)]
             ELSE /\ TmplAppend(ctx[tok.s].v)
                  /\ UNCHANGED hist
    /\ UNCHANGED <<storage, phase, args, ctx, included, pstack, outcomes>>
    /\ UNCHANGED <<factoryVars, storeVars, callVars>>

Bump(f, k) == IF k \in DOMAIN f THEN [f EXCEPT ![k] = @ + 1] ELSE CtxSet(f, k, 1)

\* a span {name.attr} on a Database whose cache holds attr: the cached
\* value, no factory call
TmplAttrCached ==
    /\ phase = "render"
    /\ RTop.kind = "tmpl"
    /\ RTop.pos <= Len(RTop.toks)
    /\ LET tok == RTop.toks[RTop.pos]
       IN /\ Evaluated(tok, RTop.strat)
          /\ tok.s \in NameSpace(RTop)
          /\ tok.attr # ""
          /\ ctx[tok.s].t = "db"
          /\ tok.attr \in DOMAIN ctx[tok.s].cache
          /\ TmplAppend(ctx[tok.s].cache[tok.attr].v)
          /\ hist' = [hist EXCEPT !.hits = Bump(@, <<tok.s, tok.attr>>)]
    /\ UNCHANGED <<storage, phase, args, ctx, included, pstack, outcomes>>
    /\ UNCHANGED <<factoryVars, storeVars, callVars>>

\* a span {name.attr} on a Database whose cache lacks attr: __getattr__
\* enters update_context(key=attr, seed=f'{seed}-{attr}') and calls the
\* factory
TmplAttrResolve ==
    /\ phase = "render"
    /\ RTop.kind = "tmpl"
    /\ RTop.pos <= Len(RTop.toks)
    /\ LET tok == RTop.toks[RTop.pos]
       IN /\ Evaluated(tok, RTop.strat)
          /\ tok.s \in NameSpace(RTop)
          /\ tok.attr # ""
          /\ ctx[tok.s].t = "db"
          /\ tok.attr \notin DOMAIN ctx[tok.s].cache
          /\ rstack' = Append(rstack, DbFrame("getattr", tok.s, tok.attr, OldCtx(ctx)))
          /\ ctx' = CtxEnter(ctx, tok.attr)
          /\ hist' = [hist EXCEPT !.fcalls = Bump(@, <<tok.s, tok.attr>>)]
    /\ UNCHANGED <<storage, phase, args, included, pstack, outcomes>>
    /\ UNCHANGED <<factoryVars, storeVars, callVars>>

TextRenderedInPlace(text, out) == [text EXCEPT !.v = out, !.strat = "identity"]

\* RenderableText.render returns a new RenderedStr and assigns nothing to
\* self
TextAfterRender(text, out) == text

\* the strategy reaches the end of the template: RenderedStr(result)
TmplReturn ==
    /\ phase = "render"
    /\ RTop.kind = "tmpl"
    /\ RTop.pos > Len(RTop.toks)
    /\ Return(RenderedStr(RTop.out))
    /\ ctx' = IF RTop.name = "" THEN ctx
              ELSE [ctx EXCEPT ![RTop.name] = TextAfterRender(@, RTop.out)]
    /\ hist' = [hist EXCEPT !.texts = Append(@,
                    [path |-> RTop.path, toks |-> RTop.toks, start |-> RTop.start,
                     out |-> RTop.out])]
    /\ UNCHANGED <<storage, args, included, pstack>>
    /\ UNCHANGED <<factoryVars, storeVars, callVars>>

-----------------------------------------------------------------------------
(* The grammars and include graphs the story specification starts from *)

\* longest include list of the top module; the other modules' lists are one
\* shorter
MaxIncl == 2
\* most spans in the start stanza's template
MaxRefs == 2

ListStanza(key, marker, items) == Stanza(key, RawList(marker, items))

\* include graphs over three modules: a and b define stanzas S and R, the
\* top module defines R and the start stanza; b may name a module the
\* storage lacks, and module bad declares an unknown strategy
GraphStorage(im, ia, ib, bad) ==
    [m \in Modules |->
        Doc(CASE m = "main" -> im [] m = "a" -> ia [] OTHER -> ib,
            CASE m = bad -> "bogus"
              [] m = "main" -> "jinja2"
              [] m = "a" -> "jinja"
              [] OTHER -> "ftemplate",
            IF m = "main"
            THEN << ListStanza("Begin", "", << <<JRef("S", ""), JRef("U", ""), Ref("S", "")>> >>),
                    ListStanza("R", "", << <<Lit("main")>> >>) >>
            ELSE << ListStanza("S", "", << <<Lit(m)>> >>),
                    ListStanza("R", "", << <<Lit(m)>> >>) >>)]

GraphStorages ==
    { GraphStorage(im, ia, ib, bad) :
        im \in ListsUpTo(Modules, MaxIncl),
        ia \in ListsUpTo(Modules, MaxIncl - 1),
        ib \in ListsUpTo({ "main", "a", "zz" }, MaxIncl - 1),
        bad \in Modules \cup { "none" } }

\* the spans the start template is built from; Q is bound nowhere
RefPool == { Ref("N", ""), Ref("N", "x"), Ref("N", "y"), Ref("P", ""), Ref("Q", "") }

ListModes == { "", "pick", "ratchet" }

BeginStanza(tmpl) == ListStanza("Begin", "", << tmpl >>)
NStanza(mode) ==
    ListStanza("N", mode, << <<Lit("n1"), Ref("P", "")>>, <<Lit("n2"), Ref("P", "x")>> >>)
PStanza(mode) ==
    ListStanza("P", mode, << <<Lit("p1")>>, <<Lit(" "), Lit("p2"), Ref("T", "")>> >>)
TStanza == Stanza("T", RawStr(<<Lit("t"), Lit("\n")>>))

\* one grammar in three layouts: in one module; the productions in an
\* included module; N included and P, which N's templates name, defined by
\* the including module, hence parsed after N
GrammarStorage(layout, tmpl, mn, mp) ==
    CASE layout = "one" ->
            [m \in { "main" } |->
                Doc(<< >>, "", << BeginStanza(tmpl), NStanza(mn), PStanza(mp), TStanza >>)]
      [] layout = "lib" ->
            [m \in { "main", "a" } |->
                IF m = "main"
                THEN Doc(<<"a">>, "", << BeginStanza(tmpl) >>)
                ELSE Doc(<< >>, "ftemplate", << NStanza(mn), PStanza(mp), TStanza >>)]
      [] OTHER ->
            [m \in { "main", "a" } |->
                IF m = "main"
                THEN Doc(<<"a">>, "ftemplate", << PStanza(mp), TStanza, BeginStanza(tmpl) >>)
                ELSE Doc(<< >>, "", << NStanza(mn) >>)]

GrammarStorages ==
    { GrammarStorage(layout, tmpl, mn, mp) :
        layout \in { "one", "lib", "split" },
        tmpl \in ListsUpTo(RefPool, MaxRefs),
        mn \in ListModes, mp \in ListModes }

Init ==
    /\ storage \in GraphStorages \cup GrammarStorages
    /\ phase = "idle"
    /\ args = << >>
    /\ ctx = << >>
    /\ included = {}
    /\ pstack = << >>
    /\ rstack = << >>
    /\ outcomes = << >>
    /\ hist = HistInit
    /\ ritems = << >>
    /\ rindex = << >>
    /\ rlog = << >>
    /\ pitems = << >>
    /\ porig = << >>
    /\ ppicked = << >>
    /\ presults = << >>
    /\ StoreIdle
    /\ CallIdle

Next ==
    \/ \E seed \in StorySeeds : render_story(seed)
    \/ ParseIncludeSkip
    \/ ParseIncludeLoad
    \/ ParseIncludeMissing
    \/ ParseStrategy
    \/ ParseData
    \/ StoryStr
    \/ FactoryCall
    \/ DbReturn
    \/ TmplLiteral
    \/ TmplError
    \/ TmplPlaceholder
    \/ TmplBare
    \/ TmplAttrCached
    \/ TmplAttrResolve
    \/ TmplReturn

Spec == Init /\ [][Next]_vars

\* parse_grammar_file alone, over the include graphs: the parser is one
\* sequential computation, so a step that can be taken is taken
InitParse ==
    /\ storage \in GraphStorages
    /\ phase = "idle"
    /\ args = << >>
    /\ ctx = << >>
    /\ included = {}
    /\ pstack = << >>
    /\ rstack = << >>
    /\ outcomes = << >>
    /\ hist = HistInit
    /\ ritems = << >>
    /\ rindex = << >>
    /\ rlog = << >>
    /\ pitems = << >>
    /\ porig = << >>
    /\ ppicked = << >>
    /\ presults = << >>
    /\ StoreIdle
    /\ CallIdle

NextParse ==
    \/ \E seed \in StorySeeds : render_story(seed)
    \/ ParseIncludeSkip
    \/ ParseIncludeLoad
    \/ ParseIncludeMissing
    \/ ParseStrategy
    \/ ParseData

SpecParse == InitParse /\ [][NextParse]_vars /\ WF_vars(NextParse)

-----------------------------------------------------------------------------
(* parse_value over the raw values a YAML document can hold: a module with  *)
(* the one stanza V is parsed                                               *)

\* strings: indented lines with a span, surrounding blanks, the empty string
ValueStrings ==
    { << Lit(" "), Lit(" "), Lit("a"), Lit("\n"), Lit(" "), Lit(" "), Lit(" "), Ref("N", ""), Lit("\n") >>,
      << Lit(" "), Lit("b"), Lit(" ") >>,
      << >> }

ValueLeaves ==
    { RawStr(toks) : toks \in ValueStrings }
        \cup { RawBool(TRUE), RawBool(FALSE), RawInt(5), RawNull }

ValueModes == { "", "pick", "markov", "ratchet", "list", "bogus" }

ValueLists == { RawListOf(m, items) : m \in ValueModes, items \in ListsUpTo(ValueLeaves, MaxLen) }

\* lists and mappings that hold a list or a mapping
ValueNested ==
    { RawListOf(m, << inner >>) :
        m \in { "", "ratchet" },
        inner \in { RawListOf("pick", << RawStr(<< Lit(" "), Lit("b"), Lit(" ") >>) >>),
                    RawListOf("", << RawInt(5) >>),
                    RawMap(<< [key |-> "k", raw |-> RawBool(TRUE)] >>) } }

ValueMaps ==
    { RawMap([i \in 1 .. Len(kids) |-> [key |-> IF i = 1 THEN "k" ELSE "l", raw |-> kids[i]]]) :
        kids \in ListsUpTo(ValueLeaves \cup { RawListOf("pick", << RawBool(FALSE) >>),
                                              RawMap(<< [key |-> "k", raw |-> RawInt(5)] >>) },
                           2) }

RawValues == ValueLeaves \cup ValueLists \cup ValueNested \cup ValueMaps

ValueStorages ==
    { [m \in { "main" } |-> Doc(<< >>, render, << Stanza("V", raw) >>)] :
        render \in { "", "jinja2" }, raw \in RawValues }

InitValue ==
    /\ storage \in ValueStorages
    /\ phase = "idle"
    /\ args = << >>
    /\ ctx = << >>
    /\ included = {}
    /\ pstack = << >>
    /\ rstack = << >>
    /\ outcomes = << >>
    /\ hist = HistInit
    /\ ritems = << >>
    /\ rindex = << >>
    /\ rlog = << >>
    /\ pitems = << >>
    /\ porig = << >>
    /\ ppicked = << >>
    /\ presults = << >>
    /\ StoreIdle
    /\ CallIdle

NextValue ==
    \/ \E seed \in StorySeeds : render_story(seed)
    \/ ParseStrategy
    \/ ParseData

SpecValue == InitValue /\ [][NextValue]_vars

-----------------------------------------------------------------------------
(* storages.py: FileStorage and its compiling and caching variants, used    *)
(* over two directories whose files may change                              *)

\* resolve_module calls of one behaviour
MaxResolves == 2

Dirs == { "d1", "d2" }

StoredNames == { "m" }

Variants == { "file", "compiling", "cached", "compcached" }

\* a document the parser pops from (include, render, a mode marker) and a
\* plain one
StoredDocs ==
    { Doc(<<"a">>, "jinja2", << ListStanza("S", "pick", << <<Lit("x")>>, <<Lit("y")>> >>) >>),
      Doc(<< >>, "", << Stanza("T", RawStr(<<Lit("t")>>)) >>) }

NoDoc == Doc(<< >>, "", << >>)

\* msgpack.dumps / msgpack.loads(raw=False): documents built of
\* string-keyed mappings, lists, strings, booleans, numbers and null come
\* back equal, as new objects
msgpack_dumps(doc) == [packed |-> doc]
msgpack_loads(bytes) == bytes.packed

\* what a resolve_module call ends with
Found(doc) == [status |-> "ok", doc |-> doc]
NotFound == [status |-> "not_found", doc |-> NoDoc]

\* FileStorage.resolve_module: yaml.safe_load of the file, or
\* GrammarModuleNotFoundError
FileResolve(dsk, d, name) ==
    IF name \in DOMAIN dsk[d].yaml THEN Found(dsk[d].yaml[name]) ELSE NotFound

\* CompilingFileStorage.resolve_module: the compiled file if there is one,
\* else the YAML file, compiled on the way
CompilingResolve(dsk, d, name) ==
    IF name \in DOMAIN dsk[d].mp
    THEN [res |-> Found(msgpack_loads(dsk[d].mp[name])), disk |-> dsk]
    ELSE LET r == FileResolve(dsk, d, name)
         IN IF r.status = "ok"
            THEN [res |-> r,
                  disk |-> [dsk EXCEPT ![d].mp = CtxSet(@, name, msgpack_dumps(r.doc))]]
            ELSE [res |-> r, disk |-> dsk]

\* a document object: role "cache" when a _modules dict holds it, "caller"
\* when it was made for a caller
Object(doc, role) == [doc |-> doc, role |-> role, touched |-> FALSE]

\* a new object for the caller
Fresh(h, doc) == [heap |-> Append(h, Object(doc, "caller")), id |-> Len(h) + 1]

CachedReturnShared(h, id) == [heap |-> h, id |-> id]

\* return deepcopy(self._modules[name])
CachedReturn(h, id) == Fresh(h, h[id].doc)

\* resolve_module of the storage class variant on directory d: what it
\* returns and the heap, the class caches and the disk it leaves
ResolveStep(variant, d, name) ==
    LET plain == FileResolve(disk, d, name)
        comp == CompilingResolve(disk, d, name)
        none == [res |-> NotFound, id |-> 0, heap |-> heap, modules |-> modules,
                 disk |-> disk]
    IN CASE variant = "file" ->
              IF plain.status = "ok"
              THEN [none EXCEPT !.res = plain, !.id = Fresh(heap, plain.doc).id,
                                !.heap = Fresh(heap, plain.doc).heap]
              ELSE none
         [] variant = "compiling" ->
              IF comp.res.status = "ok"
              THEN [none EXCEPT !.res = comp.res, !.id = Fresh(heap, comp.res.doc).id,
                                !.heap = Fresh(heap, comp.res.doc).heap,
                                !.disk = comp.disk]
              ELSE none
         [] variant = "cached" ->
              IF name \in DOMAIN modules.cached
              THEN LET r == CachedReturn(heap, modules.cached[name])
                   IN [none EXCEPT !.res = Found(r.heap[r.id].doc), !.id = r.id,
                                   !.heap = r.heap]
              ELSE IF plain.status = "ok"
                   THEN LET h1 == Append(heap, Object(plain.doc, "cache"))
                            r == CachedReturn(h1, Len(h1))
                        IN [none EXCEPT !.res = Found(r.heap[r.id].doc), !.id = r.id,
                                        !.heap = r.heap,
                                        !.modules.cached = CtxSet(@, name, Len(h1))]
                   ELSE none
         [] OTHER ->
              IF name \in DOMAIN modules.compcached
              THEN LET r == Fresh(heap, msgpack_loads(modules.compcached[name]))
                   IN [none EXCEPT !.res = Found(r.heap[r.id].doc), !.id = r.id,
                                   !.heap = r.heap]
              ELSE IF comp.res.status = "ok"
                   THEN LET bytes == msgpack_dumps(comp.res.doc)
                            r == Fresh(heap, msgpack_loads(bytes))
                        IN [none EXCEPT !.res = Found(r.heap[r.id].doc), !.id = r.id,
                                        !.heap = r.heap,
                                        !.modules.compcached = CtxSet(@, name, bytes),
                                        !.disk = comp.disk]
                   ELSE none

\* one resolve_module call, logged with what the plain FileStorage of the
\* directory returns at that moment
resolve_module(variant, d, name) ==
    /\ Len(resolved) < MaxResolves
    /\ LET r == ResolveStep(variant, d, name)
       IN /\ heap' = r.heap
          /\ modules' = r.modules
          /\ disk' = r.disk
          /\ resolved' = Append(resolved,
                [variant |-> variant, dir |-> d, name |-> name,
                 status |-> r.res.status, doc |-> r.res.doc, id |-> r.id,
                 plain |-> FileResolve(disk, d, name),
                 kept |-> (r.modules = modules /\ r.disk = disk),
                 edits |-> edits])
    /\ UNCHANGED edits
    /\ UNCHANGED <<factoryVars, storyVars, callVars>>

\* a caller changes a document it was given: the parser's pops, or
\* emptying it
MutateReturned(id, how) ==
    /\ \E i \in 1 .. Len(resolved) : resolved[i].id = id
    /\ ~heap[id].touched
    /\ heap' = [heap EXCEPT ![id].touched = TRUE,
                            ![id].doc = IF how = "parse" THEN DocAfterParse(@) ELSE NoDoc]
    /\ UNCHANGED <<disk, modules, resolved, edits>>
    /\ UNCHANGED <<factoryVars, storyVars, callVars>>

\* a YAML file is written, rewritten or removed
EditYaml(d, name, doc) ==
    /\ edits = 0
    /\ IF doc = NoDoc
       THEN /\ name \in DOMAIN disk[d].yaml
            /\ disk' = [disk EXCEPT ![d].yaml = [n \in DOMAIN @ \ { name } |-> @[n]]]
       ELSE /\ FileResolve(disk, d, name) # Found(doc)
            /\ disk' = [disk EXCEPT ![d].yaml = CtxSet(@, name, doc)]
    /\ edits' = edits + 1
    /\ UNCHANGED <<modules, heap, resolved>>
    /\ UNCHANGED <<factoryVars, storyVars, callVars>>

FactoryIdle ==
    /\ ritems = << >>
    /\ rindex = << >>
    /\ rlog = << >>
    /\ pitems = << >>
    /\ porig = << >>
    /\ ppicked = << >>
    /\ presults = << >>

YamlDirs ==
    { [n \in S |-> f[n]] : S \in SUBSET StoredNames, f \in [StoredNames -> StoredDocs] }

InitStorage ==
    /\ disk \in [Dirs -> { [yaml |-> y, mp |-> << >>] : y \in YamlDirs }]
    /\ modules = [cached |-> << >>, compcached |-> << >>]
    /\ heap = << >>
    /\ resolved = << >>
    /\ edits = 0
    /\ FactoryIdle
    /\ StoryIdle
    /\ CallIdle

NextStorage ==
    \/ \E variant \in Variants, d \in Dirs, name \in StoredNames :
          resolve_module(variant, d, name)
    \/ \E id \in 1 .. Len(heap), how \in { "parse", "clear" } : MutateReturned(id, how)
    \/ \E d \in Dirs, name \in StoredNames, doc \in StoredDocs \cup { NoDoc } :
          EditYaml(d, name, doc)

SpecStorage == InitStorage /\ [][NextStorage]_vars

-----------------------------------------------------------------------------
(* markov.py: MarkovChainDict and NameGenerator.  A string is the sequence  *)
(* of its characters; "\n" is the end sentinel and " " the padding          *)

\* longest name the loop of get_random_name is followed to
MaxGrow == 4

\* a Python index or slice bound k on a sequence of length n, as slicing
\* clamps it
Norm(k, n) ==
    IF k < 0 THEN (IF k + n < 0 THEN 0 ELSE k + n) ELSE (IF k > n THEN n ELSE k)

\* s[i:j]
PySlice(s, i, j) ==
    LET a == Norm(i, Len(s))
        b == Norm(j, Len(s))
    IN IF a < b THEN SubSeq(s, a + 1, b) ELSE << >>

\* s[k] raises IndexError outside -len(s) .. len(s) - 1
PyIndexOk(s, k) == -Len(s) <= k /\ k < Len(s)

PyIndex(s, k) == s[(IF k < 0 THEN k + Len(s) ELSE k) + 1]

\* ' ' * n: the empty string for n < 0
Spaces(n) == [i \in 1 .. (IF n < 0 THEN 0 ELSE n) |-> " "]

CandidatesLax(markov, prefix) ==
    IF prefix \in DOMAIN markov /\ markov[prefix] # << >> THEN markov[prefix] ELSE <<"\n">>

\* MarkovChainDict.__getitem__: self._dict[key] of a defaultdict(list)
Candidates(markov, prefix) ==
    IF prefix \in DOMAIN markov THEN markov[prefix] ELSE << >>

\* MarkovChainDict.add_key
add_key(markov, prefix, suffix) ==
    CtxSet(markov, prefix, Append(Candidates(markov, prefix), suffix))

\* the inner loop of read_data for one name, from position num on: the
\* table, or the IndexError of spacer[num + chainlen]
RECURSIVE read_name(_, _, _, _)
read_name(markov, name, chainlen, num) ==
    LET spacer == Spaces(chainlen) \o name
    IN IF num >= Len(name)
       THEN [status |-> "ok",
             markov |-> add_key(markov,
                                PySlice(spacer, Len(name), Len(name) + chainlen), "\n")]
       ELSE IF ~PyIndexOk(spacer, num + chainlen)
            THEN [status |-> "IndexError", markov |-> markov]
            ELSE read_name(add_key(markov, PySlice(spacer, num, num + chainlen),
                                   PyIndex(spacer, num + chainlen)),
                           name, chainlen, num + 1)

\* NameGenerator.read_data(names, destroy): destroy replaces the table by an
\* empty one first
RECURSIVE read_names(_, _, _)
read_names(markov, names, chainlen) ==
    IF names = << >>
    THEN [status |-> "ok", markov |-> markov]
    ELSE LET r == read_name(markov, Head(names), chainlen, 0)
         IN IF r.status = "ok" THEN read_names(r.markov, Tail(names), chainlen) ELSE r

read_data(markov, names, chainlen, destroy) ==
    read_names(IF destroy THEN << >> ELSE markov, names, chainlen)

\* NameGenerator.__init__: the chain length test as written,
\* `if 1 > chainlen > 10`, then read_data(source_names, chainlen)
NameGenerator(source_names, chainlen) ==
    IF 1 > chainlen /\ chainlen > 10
    THEN [status |-> "ValueError", markov |-> << >>]
    ELSE read_data(<< >>, source_names, chainlen, chainlen # 0)

\* get_random_name: prefix = start[-self.chainlen:] or ' ' * self.chainlen
InitialPrefix(start, chainlen) ==
    IF PySlice(start, -chainlen, Len(start)) # << >>
    THEN PySlice(start, -chainlen, Len(start))
    ELSE Spaces(chainlen)

\* the longest list of candidates a table of the corpora holds for one
\* prefix
MaxCandidates == 6

Corpora ==
    { << >>, << <<"a", "b">> >>, << <<"a", "b">>, <<"b", "a">> >>, << <<"a", "-">> >>,
      << <<"a", "-">>, <<"a", "b">> >> }

ChainLens == { -3, -1, 0, 1, 2, 10, 11, 100 }

Starts == { << >>, <<"a">>, <<"z">>, <<"a", "b", "a">> }

NoReturn == [status |-> "none", value |-> << >>]

InitMarkov ==
    /\ \E source_names \in Corpora, chainlen \in ChainLens, start \in Starts,
          max_length \in 0 .. MaxGrow - 1 :
          call = [pc |-> "new", source_names |-> source_names, chainlen |-> chainlen,
                  start |-> start, max_length |-> max_length, markov |-> << >>,
                  prefix |-> << >>, name |-> << >>]
    /\ ret = NoReturn
    /\ FactoryIdle
    /\ StoryIdle
    /\ StoreIdle

\* NameGenerator(source_names, chainlen=chainlen)
NewNameGenerator ==
    /\ call.pc = "new"
    /\ LET r == NameGenerator(call.source_names, call.chainlen)
       IN IF r.status = "ok"
          THEN /\ call' = [call EXCEPT !.pc = "built", !.markov = r.markov]
               /\ ret' = ret
          ELSE /\ call' = [call EXCEPT !.pc = "failed", !.markov = r.markov]
               /\ ret' = [status |-> r.status, value |-> << >>]
    /\ UNCHANGED <<factoryVars, storyVars, storeVars>>

\* get_random_name(start, max_length, seed) up to its loop
get_random_name ==
    /\ call.pc = "built"
    /\ call' = [call EXCEPT !.pc = "loop", !.name = call.start,
                            !.prefix = InitialPrefix(call.start, call.chainlen)]
    /\ ret' = ret
    /\ UNCHANGED <<factoryVars, storyVars, storeVars>>

\* one turn of the loop: rng.choice(self[prefix]), where a seed stands
\* behind every position of the list; the lookup leaves the key in the
\* defaultdict
get_suffix ==
    /\ call.pc = "loop"
    /\ LET found == Candidates(call.markov, call.prefix)
           looked == CtxSet(call.markov, call.prefix, found)
       IN IF found = << >>
          THEN /\ call' = [call EXCEPT !.pc = "done", !.markov = looked]
               /\ ret' = [status |-> "IndexError", value |-> << >>]
          ELSE \E i \in 1 .. Len(found) :
                  LET suffix == found[i]
                  IN IF suffix = "-"
                     THEN call' = call /\ ret' = ret
                     ELSE IF suffix = "\n" \/ Len(call.name) = call.max_length
                          THEN /\ call' = [call EXCEPT !.pc = "done"]
                               /\ ret' = [status |-> "ok", value |-> call.name]
                          ELSE /\ Len(call.name) < MaxGrow
                               /\ call' = [call EXCEPT
                                     !.name = Append(call.name, suffix),
                                     !.prefix = Append(PySlice(call.prefix, 1,
                                                               Len(call.prefix)),
                                                       suffix)]
                               /\ ret' = ret
    /\ UNCHANGED <<factoryVars, storyVars, storeVars>>

NextMarkov ==
    \/ NewNameGenerator
    \/ get_random_name
    \/ get_suffix

SpecMarkov == InitMarkov /\ [][NextMarkov]_vars

\* the turn of the loop in which rng.choice gives the i-th candidate and
\* the loop goes on or ends by it (a hyphen changes nothing: continue)
Sampled(i) ==
    /\ get_suffix
    /\ LET found == Candidates(call.markov, call.prefix)
       IN /\ i <= Len(found)
          /\ found[i] # "-"
          /\ \/ call'.pc = "done" /\ (found[i] = "\n" \/ Len(call.name) = call.max_length)
             \/ call'.name = Append(call.name, found[i])

\* the calls are made one after the other, and a candidate that could be
\* sampled again and again is sampled at last
SpecMarkovFair ==
    /\ SpecMarkov
    /\ WF_vars(NewNameGenerator)
    /\ WF_vars(get_random_name)
    /\ \A i \in 1 .. MaxCandidates : SF_vars(Sampled(i))

-----------------------------------------------------------------------------
(* texts.py: Text, RenderableText and RenderedStr as objects of their own:  *)
(* equality, hashing and the article helpers.  Literal tokens are single    *)
(* characters here                                                          *)

\* an instance: its class, self.value and the context it was built with
\* (names bound to plain strings); transformer and render strategy are the
\* defaults, identity and render_ftemplate
TextInstance(cls, value, context) == [cls |-> cls, value |-> value, context |-> context]

RECURSIVE render_ftemplate(_, _)
\* render_ftemplate: the f-string is evaluated against the context; a name
\* the context lacks is a NameError
render_ftemplate(tmpl, context) ==
    IF tmpl = << >> THEN [status |-> "ok", v |-> << >>]
    ELSE LET tok == Head(tmpl)
             rest == render_ftemplate(Tail(tmpl), context)
         IN IF tok.k = "ref" /\ tok.s \notin DOMAIN context
            THEN [status |-> "NameError", v |-> << >>]
            ELSE IF rest.status # "ok" THEN rest
                 ELSE [status |-> "ok",
                       v |-> (IF tok.k = "ref" THEN context[tok.s] ELSE <<tok>>) \o rest.v]

\* str(x): Text.render gives RenderedStr(self.transformer(self.value));
\* RenderableText.render hands that to the strategy with self.context
text_str(x) ==
    IF x.cls = "Text" THEN [status |-> "ok", v |-> x.value]
    ELSE render_ftemplate(x.value, x.context)

text_eq_by_value(x, other) == [status |-> "ok", v |-> x.value = other.value]

\* Text.__eq__: str(self) == other; the str result defers to the other
\* operand, whose __eq__ compares str(other) with it
text_eq(x, other) ==
    IF text_str(x).status # "ok" THEN [status |-> text_str(x).status, v |-> FALSE]
    ELSE IF text_str(other).status # "ok"
         THEN [status |-> text_str(other).status, v |-> FALSE]
         ELSE [status |-> "ok", v |-> text_str(other).v = text_str(x).v]

\* Text.__hash__: hash(self.value); the hash of a string stands for the
\* string
text_hash(x) == [of |-> x.value]

\* the first character of a string: a span begins with a brace
FirstChar(toks) == IF toks[1].k = "ref" THEN "{" ELSE toks[1].s

\* str.lower on one character
Lower(ch) ==
    CASE ch = "A" -> "a" [] ch = "E" -> "e" [] ch = "I" -> "i" [] ch = "O" -> "o"
      [] ch = "U" -> "u" [] ch = "P" -> "p" [] OTHER -> ch

vowels == { "a", "e", "i", "o", "u" }

anCaseSensitive(toks) ==
    IF toks = << >> THEN [status |-> "IndexError", v |-> ""]
    ELSE [status |-> "ok", v |-> IF FirstChar(toks) \in vowels THEN "an" ELSE "a"]

\* Text.an on str(self.value), RenderedStr.an on self: the index [0] of an
\* empty string is an IndexError
an(toks) ==
    IF toks = << >> THEN [status |-> "IndexError", v |-> ""]
    ELSE [status |-> "ok", v |-> IF Lower(FirstChar(toks)) \in vowels THEN "an" ELSE "a"]

\* Text.An, RenderedStr.An: self.an.capitalize()
An(toks) ==
    IF an(toks).status # "ok" THEN an(toks)
    ELSE [status |-> "ok", v |-> IF an(toks).v = "an" THEN "An" ELSE "A"]

\* the helper of the given name: a is an, A is An
Helper(name, toks) == IF name \in { "a", "an" } THEN an(toks) ELSE An(toks)

TextValues ==
    { << >>, <<Lit("e"), Lit("g")>>, <<Lit("E")>>, <<Lit("p")>>, <<Lit("P"), Lit("e")>>,
      <<Ref("x", "")>>, <<Ref("x", ""), Lit("g")>> }

TextContexts ==
    { << >>, CtxSet(<< >>, "x", <<Lit("e")>>), CtxSet(<< >>, "x", <<Lit("p")>>) }

TextInstances ==
    { TextInstance(cls, value, context) :
        cls \in { "Text", "RenderableText" }, value \in TextValues,
        context \in TextContexts }

InitTexts ==
    /\ \E x \in TextInstances, other \in TextInstances :
          call = [x |-> x, other |-> other]
    /\ ret = [op |-> "none"]
    /\ FactoryIdle
    /\ StoryIdle
    /\ StoreIdle

\* x == other, hash(x) and hash(other)
Compare ==
    /\ ret.op = "none"
    /\ ret' = [op |-> "eq", eq |-> text_eq(call.x, call.other),
               hx |-> text_hash(call.x), hother |-> text_hash(call.other)]
    /\ UNCHANGED call
    /\ UNCHANGED <<factoryVars, storyVars, storeVars>>

\* x.a, x.an, x.A or x.An, and the same helper of x.render()
Article(name) ==
    /\ ret.op = "none"
    /\ ret' = [op |-> "article", name |-> name,
               own |-> Helper(name, call.x.value),
               rendered |-> IF text_str(call.x).status # "ok"
                            THEN [status |-> text_str(call.x).status, v |-> ""]
                            ELSE Helper(name, text_str(call.x).v)]
    /\ UNCHANGED call
    /\ UNCHANGED <<factoryVars, storyVars, storeVars>>

NextTexts ==
    \/ Compare
    \/ \E name \in { "a", "an", "A", "An" } : Article(name)

SpecTexts == InitTexts /\ [][NextTexts]_vars

-----------------------------------------------------------------------------
(* db.Databag and db.Datalist: item access *)

\* lookups made on one container
MaxLookups == 2

\* the key of a lookup: a str, or an int as a list index or a template gives
StrKey(s) == [t |-> "str", s |-> s]
IntKey(n) == [t |-> "int", n |-> n]

\* str(key)
PyStr(key) == IF key.t = "int" THEN ToString(key.n) ELSE key.s

\* a stored value: a plain str, or a Text of the given class holding a
\* reference to the dict its container holds too (parse_value builds both
\* with the one context)
Plain(toks) == [cls |-> "str", value |-> toks]
Stored(cls, toks) == [cls |-> cls, value |-> toks]

\* a container: its class, its entries in order (key and value for the
\* dict, value alone for the list) and self.context
Container(cls, entries, context) == [cls |-> cls, entries |-> entries, context |-> context]

\* if is_text(value): value = value.render(self.context)
Rendering(value, context) ==
    IF value.cls = "str" THEN [status |-> "ok", v |-> value.value]
    ELSE text_str(TextInstance(value.cls, value.value, context))

\* ', '.join(str(k) for k in self.keys())
KeysOf(entries) == [i \in 1 .. Len(entries) |-> entries[i].key]

\* what an access gave: the value returned or the exception raised, the
\* diagnostics it logged, and the entries the container holds afterwards
Access(status, v, logged, entries) ==
    [status |-> status, v |-> v, logged |-> logged, entries |-> entries]

databag_getitem_storing(bag, key) ==
    LET hit == { i \in 1 .. Len(bag.entries) : bag.entries[i].key = PyStr(key) }
        i == CHOOSE j \in hit : TRUE
        r == Rendering(bag.entries[i].value, bag.context)
    IN IF hit = {}
       THEN Access("KeyError", << >>,
                   << [key |-> key, available |-> KeysOf(bag.entries)] >>, bag.entries)
       ELSE Access(r.status, r.v, << >>,
                   IF r.status = "ok"
                   THEN [bag.entries EXCEPT ![i].value = Plain(r.v)]
                   ELSE bag.entries)

\* Databag.__getitem__: dict lookup of str(key); a KeyError is logged with
\* the keys and raised again; a Text is rendered, the dict keeps it
databag_getitem(bag, key) ==
    LET hit == { i \in 1 .. Len(bag.entries) : bag.entries[i].key = PyStr(key) }
        r == Rendering(bag.entries[CHOOSE j \in hit : TRUE].value, bag.context)
    IN IF hit = {}
       THEN Access("KeyError", << >>,
                   << [key |-> key, available |-> KeysOf(bag.entries)] >>, bag.entries)
       ELSE Access(r.status, r.v, << >>, bag.entries)

\* Datalist.__getitem__: list indexing; the except clause names KeyError,
\* which list indexing never raises, so an IndexError passes it by (and a
\* str index is a TypeError)
datalist_getitem(lst, key) ==
    IF key.t # "int" THEN Access("TypeError", << >>, << >>, lst.entries)
    ELSE IF ~PyIndexOk(lst.entries, key.n)
         THEN Access("IndexError", << >>, << >>, lst.entries)
         ELSE LET r == Rendering(PyIndex(lst.entries, key.n), lst.context)
              IN Access(r.status, r.v, << >>, lst.entries)

getitem_of(container, key) ==
    IF container.cls = "Databag" THEN databag_getitem(container, key)
    ELSE datalist_getitem(container, key)

\* the values stored
StoredValues ==
    { Plain(<<Lit("p")>>), Plain(<<Ref("x", "")>>),
      Stored("Text", <<Ref("x", "")>>),
      Stored("RenderableText", <<Ref("x", ""), Lit("g")>>),
      Stored("RenderableText", <<Lit("e")>>) }

BagKeys == <<"a", "1">>

Containers ==
    { Container("Databag",
                [i \in 1 .. n |-> [key |-> BagKeys[i], value |-> vs[i]]], c) :
        n \in 0 .. 2, vs \in [1 .. 2 -> StoredValues], c \in TextContexts }
    \cup { Container("Datalist", SubSeq(vs, 1, n), c) :
             n \in 0 .. 2, vs \in [1 .. 2 -> StoredValues], c \in TextContexts }

LookupKeys == { StrKey("a"), StrKey("zz"), IntKey(1), IntKey(0), IntKey(-1), IntKey(2) }

InitBag ==
    /\ \E container \in Containers :
          call = [container |-> container, made |-> container.entries, log |-> << >>]
    /\ ret = << >>
    /\ FactoryIdle
    /\ StoryIdle
    /\ StoreIdle

\* container[key]
getitem(key) ==
    /\ Len(ret) < MaxLookups
    /\ LET r == getitem_of(call.container, key)
       IN /\ call' = [call EXCEPT !.container.entries = r.entries,
                                  !.log = @ \o r.logged]
          /\ ret' = Append(ret, [key |-> key, status |-> r.status, v |-> r.v,
                                 logged |-> r.logged, at |-> call.container.context])
    /\ UNCHANGED <<factoryVars, storyVars, storeVars>>

\* the caller binds a name of the shared dict between two accesses
Rebind(toks) ==
    /\ Len(ret) < MaxLookups
    /\ "x" \in DOMAIN call.container.context => call.container.context["x"] # toks
    /\ call' = [call EXCEPT !.container.context = CtxSet(@, "x", toks)]
    /\ UNCHANGED ret
    /\ UNCHANGED <<factoryVars, storyVars, storeVars>>

NextBag ==
    \/ \E key \in LookupKeys : getitem(key)
    \/ \E toks \in { <<Lit("e")>>, <<Lit("p")>> } : Rebind(toks)

SpecBag == InitBag /\ [][NextBag]_vars

-----------------------------------------------------------------------------
(* seeds.py: make_seed, set_seed, get_seed *)

\* calls made on the seed functions in one run
MaxSeedOps == 3

\* the module random, whose hidden generator is the ambient source, and a
\* random.Random instance the caller holds
AmbientRandom == [t |-> "module", v |-> << >>, strat |-> ""]
Handle == [t |-> "rng", v |-> << >>, strat |-> ""]

\* the 32 hexadecimal digits of the MD5 of the text of the n-th number the
\* source gave: one token, a different one for every draw of every source
HexDigest(src, n) == [k |-> "hex", s |-> src, attr |-> ToString(n), syn |-> ""]

\* the generator a seed argument names
SourceOf(seed) == IF seed.t = "rng" THEN "handle" ELSE "ambient"

make_seed_peek(rngs, src) ==
    [v |-> RenderedStr(<<HexDigest(src, rngs[src] + 1)>>), rngs |-> rngs]

\* make_seed(rng): md5(str(rng.random())).hexdigest(); the source has made
\* one more draw afterwards
make_seed(rngs, src) ==
    [v |-> RenderedStr(<<HexDigest(src, rngs[src] + 1)>>),
     rngs |-> [rngs EXCEPT ![src] = @ + 1]]

\* set_seed: None and the module random ask for make_seed(), a Random for
\* make_seed(seed); anything else is stored as it is
set_seed(context, seed, rngs) ==
    IF seed.t \in { "none", "module", "rng" }
    THEN LET made == make_seed(rngs, SourceOf(seed))
         IN [context |-> CtxSet(context, "seed", made.v), rngs |-> made.rngs]
    ELSE [context |-> CtxSet(context, "seed", seed), rngs |-> rngs]

\* str(x) inside an f-string
FormatOf(x) == IF x.t = "none" THEN <<Lit("None")>> ELSE x.v

\* f'{seed}-{key}'
Combined(seed, key) == RenderedStr(FormatOf(seed) \o <<Lit("-")>> \o FormatOf(key))

\* get_seed up to the key: a seed the dict lacks is made and stored, and a
\* stored module random or Random is replaced by a seed made from it
StoredSeed(context, rngs) ==
    LET first == IF "seed" \in DOMAIN context
                 THEN [context |-> context, rngs |-> rngs]
                 ELSE set_seed(context, NoneVal, rngs)
    IN IF first.context["seed"].t \in { "module", "rng" }
       THEN set_seed(first.context, first.context["seed"], first.rngs)
       ELSE first

get_seed_storing(context, rngs) ==
    LET base == StoredSeed(context, rngs)
        key == CtxGet(base.context, "key")
        seed == IF key.t # "none" THEN Combined(base.context["seed"], key)
                ELSE base.context["seed"]
    IN [v |-> seed, context |-> CtxSet(base.context, "seed", seed), rngs |-> base.rngs]

\* get_seed: key = context.get('key'); the stored seed, joined to the key
\* when the key is not None
get_seed(context, rngs) ==
    LET base == StoredSeed(context, rngs)
        key == CtxGet(base.context, "key")
    IN [v |-> IF key.t # "none" THEN Combined(base.context["seed"], key)
              ELSE base.context["seed"],
        context |-> base.context, rngs |-> base.rngs]

SeedArgs == { NoneVal, AmbientRandom, Handle, RenderedStr(<<Lit("s1")>>), RenderedStr(<<Lit("s2")>>) }

SeedKeys == { NoneVal, RenderedStr(<<Lit("x")>>), RenderedStr(<< >>) }

\* the dicts the caller may hand over: with or without a seed and a key
SeedContexts ==
    { [n \in names |-> IF n = "seed" THEN seed ELSE key] :
        names \in SUBSET { "seed", "key" }, seed \in SeedArgs, key \in SeedKeys }

InitSeeds ==
    /\ \E context \in SeedContexts :
          call = [context |-> context, rngs |-> [src \in { "ambient", "handle" } |-> 0]]
    /\ ret = << >>
    /\ FactoryIdle
    /\ StoryIdle
    /\ StoreIdle

\* what one call did: its name and argument, the dict and the generators
\* before and after, the value returned
SeedOp(op, arg, v, after) ==
    [op |-> op, arg |-> arg, v |-> v, before |-> call.context, drawn |-> call.rngs,
     after |-> after.context, rngs |-> after.rngs]

\* seeds.set_seed(context, seed)
SetSeed(seed) ==
    /\ Len(ret) < MaxSeedOps
    /\ LET r == set_seed(call.context, seed, call.rngs)
       IN /\ call' = [context |-> r.context, rngs |-> r.rngs]
          /\ ret' = Append(ret, SeedOp("set_seed", seed, NoneVal, r))
    /\ UNCHANGED <<factoryVars, storyVars, storeVars>>

\* contexts.get_context(seed), as render_story calls it: a new dict
GetContext(seed) ==
    /\ Len(ret) < MaxSeedOps
    /\ LET r == set_seed(<< >>, seed, call.rngs)
       IN /\ call' = [context |-> r.context, rngs |-> r.rngs]
          /\ ret' = Append(ret, SeedOp("get_context", seed, NoneVal, r))
    /\ UNCHANGED <<factoryVars, storyVars, storeVars>>

\* seeds.get_seed(context)
GetSeed ==
    /\ Len(ret) < MaxSeedOps
    /\ LET r == get_seed(call.context, call.rngs)
       IN /\ call' = [context |-> r.context, rngs |-> r.rngs]
          /\ ret' = Append(ret, SeedOp("get_seed", NoneVal, r.v, r))
    /\ UNCHANGED <<factoryVars, storyVars, storeVars>>

NextSeeds ==
    \/ \E seed \in SeedArgs : SetSeed(seed)
    \/ \E seed \in SeedArgs : GetContext(seed)
    \/ GetSeed

SpecSeeds == InitSeeds /\ [][NextSeeds]_vars

-----------------------------------------------------------------------------
(* db.Database used on its own: __str__, __getattr__ and the methods of    *)
(* str it delegates, by a caller that catches what they raise              *)

\* accesses made on one resolver
MaxAccess == 3

\* some of the names hasattr(str, attr) holds for
StrMethods == { "upper", "lower" }

\* str.upper on one character
Upper(ch) ==
    CASE ch = "a" -> "A" [] ch = "b" -> "B" [] ch = "e" -> "E" [] ch = "p" -> "P"
      [] OTHER -> ch

\* the method of the given name applied to a string
str_method(name, toks) ==
    [i \in 1 .. Len(toks) |->
        Lit(IF name = "upper" THEN Upper(toks[i].s) ELSE Lower(toks[i].s))]

\* getattr(s, attr) of a str s: the method bound to s
BoundMethod(attr, s) == [t |-> "method", v |-> s.v, strat |-> attr]

\* what an access gave: the value returned or the exception raised, and the
\* resolver and the context dict it left
Gave(status, v, db, context) ==
    [status |-> status, v |-> v, db |-> db, context |-> context]

\* self.factory(self.context) over plain items: the selected item and the
\* closure state left, or the IndexError of an empty list
factory_call(db, context) ==
    LET idx == FactoryIndex(db, context["seed"])
    IN IF idx = -1 THEN Gave("IndexError", NoneVal, db, context)
       ELSE Gave("ok",
                 IF db.items = << >> THEN EmptyStr ELSE db.items[idx + 1],
                 FactoryObjAfter(db, idx), context)

database_str_cached(db, context) ==
    IF DOMAIN db.cache # {}
    THEN Gave("ok", RenderedStr(db.cache[CHOOSE a \in DOMAIN db.cache : TRUE].v), db, context)
    ELSE factory_call(db, context)

\* Database.__str__: str(self.factory(self.context))
database_str(db, context) ==
    LET r == factory_call(db, context)
    IN IF r.status # "ok" THEN r ELSE Gave("ok", RenderedStr(r.v.v), r.db, context)

\* Database.__getattr__ (a name found by normal lookup never reaches it):
\* the cached value; else for a method name of str that method of
\* str(self); else the factory's result under update_context, which an
\* exception leaves without reaching ctx.update(old_ctx); the result is
\* stored in the cache in both cases
database_getattr(db, context, attr) ==
    IF attr \in DOMAIN db.cache THEN Gave("ok", db.cache[attr], db, context)
    ELSE IF attr \in StrMethods
         THEN LET s == database_str(db, context)
              IN IF s.status # "ok" THEN s
                 ELSE Gave("ok", BoundMethod(attr, s.v),
                           CacheSet(s.db, attr, BoundMethod(attr, s.v)), context)
         ELSE LET r == factory_call(db, CtxEnter(context, attr))
              IN IF r.status # "ok" THEN r
                 ELSE Gave("ok", r.v, CacheSet(r.db, attr, r.v),
                           CtxExit(r.context, OldCtx(context)))

\* db.m(): the attribute m is fetched and called
database_method(db, context, m) ==
    LET r == database_getattr(db, context, m)
    IN IF r.status # "ok" THEN r
       ELSE Gave("ok", RenderedStr(str_method(r.v.strat, r.v.v)), r.db, r.context)

PlainItems == { RenderedStr(<<Lit("a")>>), RenderedStr(<<Lit("b")>>) }

Resolvers ==
    { Database(mode, items, <<"main", "N">>) :
        mode \in { "reuse", "pick", "ratchet" }, items \in ListsUpTo(PlainItems, MaxLen) }

InitDb ==
    /\ \E db \in Resolvers, seed \in StorySeeds :
          call = [db |-> db, context |-> get_context(seed)]
    /\ ret = << >>
    /\ FactoryIdle
    /\ StoryIdle
    /\ StoreIdle

\* the access is made and what it gave recorded with the state it found
Accessed(op, attr, r) ==
    /\ Len(ret) < MaxAccess
    /\ ret' = Append(ret, [op |-> op, attr |-> attr, status |-> r.status, v |-> r.v,
                           db |-> call.db, context |-> call.context,
                           dbAfter |-> r.db, after |-> r.context])
    /\ call' = [db |-> r.db, context |-> r.context]
    /\ UNCHANGED <<factoryVars, storyVars, storeVars>>

\* str(db)
Stringify == Accessed("str", "", database_str(call.db, call.context))

\* db.attr
GetAttr(attr) == Accessed("getattr", attr, database_getattr(call.db, call.context, attr))

\* db.m()
CallMethod(m) == Accessed("method", m, database_method(call.db, call.context, m))

NextDb ==
    \/ Stringify
    \/ \E attr \in { "x", "y" } : GetAttr(attr)
    \/ \E m \in StrMethods : CallMethod(m)

SpecDb == InitDb /\ [][NextDb]_vars

-----------------------------------------------------------------------------
(* grammars.get_list_setting on the sequences the YAML loader hands over:  *)
(* the elements in order, a mode marker, if there is one, still among them *)

\* most elements after the first one
MaxRest == 2

\* the values a marker's key holds
MarkerModes == { "pick", "ratchet", "markov", "list", "reuse", "bogus" }

\* a mapping of one entry
Single(key, raw) == RawMap(<< [key |-> key, raw |-> raw] >>)

\* funcy.is_mapping
is_mapping(raw) == raw.shape = "map"

\* 'mode' in value[0]
HasMode(raw) == \E i \in 1 .. Len(raw.entries) : raw.entries[i].key = "mode"

\* the variant that takes any mapping holding the key mode for the marker
get_list_setting_anylen(value) ==
    IF value # << >> /\ is_mapping(value[1]) /\ HasMode(value[1])
    THEN [mode |-> (CHOOSE e \in { value[1].entries[i] : i \in 1 .. Len(value[1].entries) } :
                       e.key = "mode").raw,
          value |-> Tail(value)]
    ELSE [mode |-> RawStr(<<Lit("reuse")>>), value |-> value]

\* get_list_setting(value, grammar_path): value.pop(0)['mode'] and the list
\* without its first element when that element is a mapping of the one key
\* mode, 'reuse' and the list as it is otherwise
get_list_setting(value) ==
    IF /\ value # << >>
       /\ is_mapping(value[1])
       /\ Len(value[1].entries) = 1
       /\ HasMode(value[1])
    THEN [mode |-> value[1].entries[1].raw, value |-> Tail(value)]
    ELSE [mode |-> RawStr(<<Lit("reuse")>>), value |-> value]

\* what may stand first in a list: a marker, a mapping of another key, of
\* two keys or of none, and the values that are no mappings
Heads ==
    { Single("mode", RawStr(<<Lit(m)>>)) : m \in MarkerModes }
        \cup { Single("other", RawStr(<<Lit("pick")>>)),
               RawMap(<< [key |-> "mode", raw |-> RawStr(<<Lit("pick")>>)],
                         [key |-> "other", raw |-> RawStr(<<Lit("v")>>)] >>),
               RawMap(<< [key |-> "other", raw |-> RawStr(<<Lit("v")>>)],
                         [key |-> "mode", raw |-> RawStr(<<Lit("pick")>>)] >>),
               RawMap(<< >>),
               RawStr(<<Lit("mode")>>), RawStr(<<Lit("a")>>), RawInt(1), RawBool(TRUE), RawNull,
               RawListOf("", << Single("mode", RawStr(<<Lit("pick")>>)) >>) }

\* what may follow: items, and a second marker
Rests == { RawStr(<<Lit("a")>>), RawStr(<<Lit("b")>>), Single("mode", RawStr(<<Lit("ratchet")>>)) }

YamlLists ==
    { << >> } \cup
    { <<head>> \o rest : head \in Heads,
                         rest \in UNION { [1 .. n -> Rests] : n \in 0 .. MaxRest } }

InitSetting ==
    /\ \E value \in YamlLists : call = [value |-> value, pc |-> "ready"]
    /\ ret = << >>
    /\ FactoryIdle
    /\ StoryIdle
    /\ StoreIdle

\* mode, value = get_list_setting(value, grammar_path)
GetListSetting ==
    /\ call.pc = "ready"
    /\ ret' = get_list_setting(call.value)
    /\ call' = [call EXCEPT !.pc = "done"]
    /\ UNCHANGED <<factoryVars, storyVars, storeVars>>

NextSetting == GetListSetting

SpecSetting == InitSetting /\ [][NextSetting]_vars

-----------------------------------------------------------------------------
(* the productions parse_value builds, and what one use of a production    *)
(* gives: the factory of a Database selects an item, a Datalist is         *)
(* indexed, markovify hands its items to the name generator, a text is     *)
(* rendered                                                                *)

\* uses of one production
MaxUses == 2

RECURSIVE render_spans(_, _, _)
\* the strategy on a template whose spans name plain strings of the
\* context: a span of its syntax gives the string, the rest is text
render_spans(tmpl, strat, c) ==
    IF tmpl = << >> THEN << >>
    ELSE (IF Evaluated(Head(tmpl), strat) THEN c[Head(tmpl).s].v ELSE << AsText(Head(tmpl)) >>)
             \o render_spans(Tail(tmpl), strat, c)

\* the variant that renders whatever was selected
item_result_rendering(result, strat, c) ==
    RenderedStr(render_spans(result.v, strat, c))

\* if is_text(result): result = result.render(context); the strategy of a
\* plain string's module is not asked
item_result(result, strat, c) ==
    IF is_text(result) THEN RenderedStr(render_spans(result.v, result.strat, c))
    ELSE result

\* one use: the item selected, the value given (or the exception), and the
\* production afterwards
Use(status, item, v, after) == [status |-> status, item |-> item, v |-> v, after |-> after]

\* str(production), production[i - 1] of a Datalist, and the i-th name of
\* the corpus NameGenerator(items) of a markov production is trained on
use_production(prod, strat, c, i) ==
    CASE prod.t = "text" -> Use("ok", prod, item_result(prod, strat, c), prod)
      [] prod.t = "datalist" ->
            IF i > Len(prod.items) THEN Use("IndexError", NoneVal, NoneVal, prod)
            ELSE Use("ok", prod.items[i], item_result(prod.items[i], strat, c), prod)
      [] prod.t = "db" /\ prod.mode = "markov" ->
            IF i > Len(prod.items) THEN Use("IndexError", NoneVal, NoneVal, prod)
            ELSE Use("ok", prod.items[i], prod.items[i], prod)
      [] prod.t = "db" ->
            LET idx == FactoryIndex(prod, c["seed"])
            IN IF idx = -1 THEN Use("IndexError", NoneVal, NoneVal, prod)
               ELSE IF prod.items = << >>
                    THEN Use("ok", NoneVal, EmptyStr, FactoryObjAfter(prod, idx))
                    ELSE Use("ok", prod.items[idx + 1],
                             item_result(prod.items[idx + 1], strat, c),
                             FactoryObjAfter(prod, idx))
      [] OTHER -> Use("TypeError", NoneVal, NoneVal, prod)

\* items: text, a span of each strategy's syntax naming the seed, a number
ItemLeaves ==
    { RawStr(<< Lit("a") >>), RawStr(<< Ref("seed", ""), Lit("b") >>),
      RawStr(<< Lit("c"), JRef("seed", "") >>), RawInt(5) }

ItemModes == { "", "pick", "markov", "ratchet", "list" }

ItemValues ==
    { RawListOf(m, items) : m \in ItemModes, items \in ListsUpTo(ItemLeaves, 2) }
        \cup { raw \in ItemLeaves : raw.shape = "str" }

ItemStorages ==
    { [m \in { "main" } |-> Doc(<< >>, render, << Stanza("V", raw) >>)] :
        render \in { "", "jinja2" }, raw \in ItemValues }

InitItems ==
    /\ storage \in ItemStorages
    /\ phase = "idle"
    /\ args = << >>
    /\ ctx = << >>
    /\ included = {}
    /\ pstack = << >>
    /\ rstack = << >>
    /\ outcomes = << >>
    /\ hist = HistInit
    /\ FactoryIdle
    /\ StoreIdle
    /\ CallIdle

\* a use of the production stanza V is bound to, after the parse
UseProduction(i) ==
    /\ phase = "parsed"
    /\ Len(ret) < MaxUses
    /\ LET u == use_production(ctx["V"],
                               parse_render_strategy(RenderMode(storage[TopModule])), ctx, i)
       IN /\ ret' = Append(ret, u)
          /\ ctx' = [ctx EXCEPT !["V"] = u.after]
    /\ UNCHANGED <<storage, phase, args, included, pstack, rstack, outcomes, hist, call>>
    /\ UNCHANGED <<factoryVars, storeVars>>

NextItems ==
    \/ \E seed \in StorySeeds : render_story(seed)
    \/ ParseStrategy
    \/ ParseData
    \/ \E i \in 1 .. 2 : UseProduction(i)

SpecItems == InitItems /\ [][NextItems]_vars

-----------------------------------------------------------------------------
(* render_story with keyword parameters, over documents whose stanzas are  *)
(* named like the context's own entries                                    *)

\* the variant that builds the context from the seed alone
get_context_seed_only(seed, kwargs) == CtxSet(<< >>, "seed", seed)

\* contexts.get_context(seed, **kwargs): context = {**kwargs}, then
\* seeds.set_seed(context, seed)
get_context_with(seed, kwargs) == CtxSet(kwargs, "seed", seed)

\* the names a stanza or a keyword parameter may take besides the start
\* stanza's
ContextNames == { "seed", "key", "who" }

\* the keyword parameters: plain strings under the names who and key
KwargSets ==
    { [n \in names |-> RenderedStr(<< Lit("kw"), Lit(n) >>)] : names \in SUBSET { "who", "key" } }

\* the stanzas of module m: scalars holding the module's name, in the
\* order seed, key, who
NameStanzas(m, names) ==
    (IF "seed" \in names THEN << Stanza("seed", RawStr(<< Lit(m) >>)) >> ELSE << >>)
        \o (IF "key" \in names THEN << Stanza("key", RawStr(<< Lit(m) >>)) >> ELSE << >>)
        \o (IF "who" \in names THEN << Stanza("who", RawStr(<< Lit(m) >>)) >> ELSE << >>)

\* the top module defines the start stanza, whose template names who, key
\* and seed, and may include module a
NameStorages ==
    { [m \in { "main", "a" } |->
          IF m = "main"
          THEN Doc(incl, "",
                   << Stanza("Begin", RawStr(tmpl)) >> \o NameStanzas("main", top))
          ELSE Doc(<< >>, "", NameStanzas("a", lib))] :
        incl \in { << >>, << "a" >> },
        tmpl \in { << Ref("who", ""), Lit("/"), Ref("seed", "") >>,
                   << Ref("key", ""), Lit("/"), Ref("who", "") >> },
        top \in SUBSET ContextNames, lib \in SUBSET ContextNames }

InitNames ==
    /\ storage \in NameStorages
    /\ phase = "idle"
    /\ args = << >>
    /\ ctx = << >>
    /\ included = {}
    /\ pstack = << >>
    /\ rstack = << >>
    /\ outcomes = << >>
    /\ hist = HistInit
    /\ FactoryIdle
    /\ StoreIdle
    /\ CallIdle

\* render_story(storage, name, seed=seed, **kwargs): ctx =
\* get_context(seed, **kwargs), then parse_grammar_file(storage, name, ctx)
\* up to its resolve_module call
render_story_with(seed, kwargs) ==
    /\ phase = "idle"
    /\ Len(outcomes) + 1 \in StoryCalls
    /\ args' = [name |-> TopModule, start |-> StartStanza, seed |-> seed, kwargs |-> kwargs]
    /\ ctx' = get_context_with(seed, kwargs)
    /\ included' = { TopModule }
    /\ storage' = StorageAfterResolve(storage, TopModule)
    /\ pstack' = << ParseFrame(TopModule, storage[TopModule]) >>
    /\ hist' = [HistInit EXCEPT !.loads[TopModule] = 1]
    /\ phase' = "parse"
    /\ UNCHANGED <<rstack, outcomes>>
    /\ UNCHANGED <<factoryVars, storeVars, callVars>>

NextNames ==
    \/ \E seed \in StorySeeds, kwargs \in KwargSets : render_story_with(seed, kwargs)
    \/ ParseIncludeLoad
    \/ ParseStrategy
    \/ ParseData
    \/ StoryStr
    \/ TmplLiteral
    \/ TmplError
    \/ TmplBare
    \/ TmplReturn

SpecNames == InitNames /\ [][NextNames]_vars

-----------------------------------------------------------------------------
(* C2: the i-th call of a ratchet factory over n >= 1 items returns         *)
(* items[i mod n] (rendered when it is a Text) and its index stays within   *)
(* 0..n-1; over no items every call returns the empty string.               *)
C2_RatchetCycleLaw ==
    \A f \in DOMAIN rlog :
        LET n == Len(ritems[f])
        IN /\ n >= 1 =>
                /\ rindex[f] \in 0 .. n - 1
                /\ \A i \in 0 .. Len(rlog[f]) - 1 :
                      LET item == ritems[f][(i % n) + 1]
                      IN rlog[f][i + 1] = IF is_text(item) THEN TextRender(item) ELSE item
           /\ n = 0 =>
                /\ rindex[f] = 0
                /\ \A i \in 1 .. Len(rlog[f]) : rlog[f][i] = EmptyStr

\* a factory over two different items has wrapped around twice
C2_Witness ==
    \E f \in DOMAIN rlog :
        /\ Len(ritems[f]) = 2
        /\ ritems[f][1] # ritems[f][2]
        /\ Len(rlog[f]) = 5

(* C3: two ratchet factories keep independent counters: a call to one      *)
(* leaves the other's index alone, and under any interleaving each          *)
(* factory's index is its own call count modulo its own length.             *)
C3_RatchetIndependent ==
    /\ [][\A f \in DOMAIN rlog :
            Len(rlog'[f]) = Len(rlog[f]) => rindex'[f] = rindex[f]]_vars
    /\ [](\A f \in DOMAIN rlog :
            /\ Len(ritems[f]) >= 1 => rindex[f] = Len(rlog[f]) % Len(ritems[f])
            /\ \A k \in 1 .. Len(rlog[f]) :
                  rlog[f][k] = RatcheterResult(ritems[f], (k - 1) % Len(ritems[f])))

\* the two factories were called different numbers of times and stand at
\* different indices
C3_Witness ==
    /\ DOMAIN rlog = RatchetFactories
    /\ Len(ritems["ra"]) = 2 /\ Len(ritems["rb"]) = 2
    /\ Len(rlog["ra"]) = 3 /\ Len(rlog["rb"]) = 2
    /\ rindex["ra"] = 1 /\ rindex["rb"] = 0

-----------------------------------------------------------------------------
Count(seq, x) == Cardinality({ i \in 1 .. Len(seq) : seq[i] = x })

(* C4: after every call of a pick factory the elements popped so far        *)
(* together with the elements still in the list are exactly the original    *)
(* items, each call shortens the list by one and returns the popped element *)
(* (rendered when it is a Text); after n calls the list is empty.           *)
C4_PickPermutation ==
    /\ Len(pitems) + Len(ppicked) = Len(porig)
    /\ Len(presults) = Len(ppicked)
    /\ \A x \in ItemPool : Count(ppicked \o pitems, x) = Count(porig, x)
    /\ \A i \in 1 .. Len(ppicked) :
          presults[i] = IF is_text(ppicked[i]) THEN TextRender(ppicked[i]) ELSE ppicked[i]
    /\ Len(ppicked) = Len(porig) => pitems = << >>

\* a list of three items, one of them twice, was picked empty and not in
\* list order
C4_Witness ==
    /\ Len(porig) = 3
    /\ porig[1] = porig[3] /\ porig[1] # porig[2]
    /\ pitems = << >>
    /\ ppicked # porig
    /\ Len(presults) = 3

-----------------------------------------------------------------------------
LastOutcome == outcomes[Len(outcomes)]

Finished(status) ==
    /\ phase = "idle"
    /\ outcomes # << >>
    /\ LastOutcome.status = status

(* C1: two render_story calls with the same storage, module name, start     *)
(* stanza and str seed end the same way: they return the identical string,  *)
(* or raise the same error.                                                 *)
C1_SameSeedSameStory ==
    \A i, j \in 1 .. Len(outcomes) :
        outcomes[i].seed = outcomes[j].seed =>
            /\ outcomes[i].status = outcomes[j].status
            /\ outcomes[i].err = outcomes[j].err
            /\ outcomes[i].out = outcomes[j].out

\* the second of two calls with one seed has returned a story for which a
\* pick list was drawn from and a ratchet list advanced
C1_Witness ==
    /\ Len(outcomes) = 2
    /\ outcomes[1].seed = outcomes[2].seed
    /\ outcomes[2].status = "ok"
    /\ outcomes[2].out # << >>
    /\ "N" \in DOMAIN ctx /\ ctx["N"].mode = "pick" /\ Len(ctx["N"].items) = 1
    /\ "P" \in DOMAIN ctx /\ ctx["P"].mode = "ratchet" /\ ctx["P"].index = 1

-----------------------------------------------------------------------------
(* C5: attribute access on a Database calls the factory exactly once for    *)
(* each distinct name, the result is cached under that name and never       *)
(* replaced, and every later access of the name gets the cached value       *)
(* without a factory call.                                                  *)
C5_CachedOncePerName ==
    /\ [](/\ \A k \in DOMAIN hist.fcalls : hist.fcalls[k] = 1
          /\ \A k \in DOMAIN hist.hits :
                /\ k \in DOMAIN hist.fcalls
                /\ k[2] \in DOMAIN ctx[k[1]].cache
          /\ \A n \in DOMAIN ctx :
                ctx[n].t = "db" =>
                    \A a \in DOMAIN ctx[n].cache : <<n, a>> \in DOMAIN hist.fcalls)
    /\ [][phase = "render" =>
            /\ \A n \in DOMAIN ctx :
                  ctx[n].t = "db" =>
                      \A a \in DOMAIN ctx[n].cache :
                          /\ a \in DOMAIN ctx'[n].cache
                          /\ ctx'[n].cache[a] = ctx[n].cache[a]
            /\ hist'.hits # hist.hits =>
                  LET tok == RTop.toks[RTop.pos]
                  IN /\ hist'.fcalls = hist.fcalls
                     /\ ctx' = ctx
                     /\ rstack'[Len(rstack)].out =
                            RTop.out \o ctx[tok.s].cache[tok.attr].v]_vars

\* the story {N.x}{N.x} over a pick list N has returned: the factory ran
\* once and popped one item, and the second access was served from the
\* cache, so the item's text is in the story twice
C5_Witness ==
    /\ Finished("ok")
    /\ ctx["Begin"].items[1].v = << Ref("N", "x"), Ref("N", "x") >>
    /\ ctx["N"].mode = "pick"
    /\ Len(ctx["N"].items) = 1
    /\ DOMAIN ctx["N"].cache = { "x" }
    /\ hist.fcalls[<<"N", "x">>] = 1
    /\ hist.hits[<<"N", "x">>] = 1
    /\ LastOutcome.out = ctx["N"].cache["x"].v \o ctx["N"].cache["x"].v

-----------------------------------------------------------------------------
RECURSIVE SeedUnder(_, _)
\* seed extended by "-attr" for every __getattr__ activation of the stack,
\* outermost first
SeedUnder(seed, stack) ==
    IF stack = << >> THEN seed
    ELSE SeedUnder(IF Head(stack).kind = "getattr"
                   THEN seed \o <<Lit("-"), Lit(Head(stack).attr)>>
                   ELSE seed,
                   Tail(stack))

RECURSIVE KeyUnder(_, _)
KeyUnder(key, stack) ==
    IF stack = << >> THEN key
    ELSE KeyUnder(IF Head(stack).kind = "getattr"
                  THEN RenderedStr(<<Lit(Head(stack).attr)>>)
                  ELSE key,
                  Tail(stack))

(* C6: as long as nothing has raised, the context's seed and key are those  *)
(* of the attribute accesses still being resolved: every access that has    *)
(* returned has put back the seed and key it found, a nested one the outer  *)
(* access's derived seed and key, the outermost the base seed and no key.   *)
C6_ContextRestored ==
    (phase = "render" \/ Finished("ok")) =>
        /\ CtxGet(ctx, "seed") = RenderedStr(SeedUnder(args.seed.v, rstack))
        /\ CtxGet(ctx, "key") = KeyUnder(NoneVal, rstack)

\* the story {N.x} has returned after P.x was resolved inside N.x: both
\* accesses left the context as they found it
C6_Witness ==
    /\ Finished("ok")
    /\ ctx["Begin"].items[1].v = << Ref("N", "x") >>
    /\ "x" \in DOMAIN ctx["N"].cache
    /\ "x" \in DOMAIN ctx["P"].cache
    /\ DOMAIN hist.fcalls = { <<"N", "x">>, <<"P", "x">> }
    /\ ctx["seed"] = args.seed
    /\ ctx["key"] = NoneVal

-----------------------------------------------------------------------------
IncludeSet(mods) ==
    { inc \in Modules \cup { "zz" } :
        \E m \in mods \cap DOMAIN storage :
            \E i \in 1 .. Len(storage[m].include) : storage[m].include[i] = inc }

RECURSIVE ReachableFrom(_)
ReachableFrom(mods) ==
    IF IncludeSet(mods) \subseteq mods THEN mods
    ELSE ReachableFrom(mods \cup IncludeSet(mods))

ValidRenderModes == { "ftemplate", "jinja2", "jinja" }

\* every module the top module reaches exists and declares a known strategy
GraphSound ==
    \A m \in ReachableFrom({ TopModule }) :
        /\ m \in DOMAIN storage
        /\ RenderMode(storage[m]) \in ValidRenderModes

\* some module the top module reaches includes itself, directly or not
GraphCyclic ==
    \E m \in ReachableFrom({ TopModule }) : m \in ReachableFrom(IncludeSet({ m }))

(* C7: parsing terminates; no module is loaded or merged twice; meeting a   *)
(* module that was already visited leaves the context as it is and loads    *)
(* nothing; and a graph whose modules all exist and declare known           *)
(* strategies, cyclic or not, is parsed without raising.                    *)
C7_IncludeCycleTerminates ==
    /\ [](\A m \in Modules : hist.loads[m] <= 1)
    /\ [](\A i, j \in 1 .. Len(hist.merges) :
            hist.merges[i] = hist.merges[j] => i = j)
    /\ [](GraphSound => outcomes = << >>)
    /\ [][(/\ phase = "parse"
           /\ PTop.i <= Len(PTop.include)
           /\ PTop.include[PTop.i] \in included)
          => ctx' = ctx /\ hist' = hist /\ included' = included /\ phase' = phase]_vars
    /\ (phase = "parse") ~> (phase # "parse")

\* main includes a, a includes b, b includes main: all three were merged and
\* the parse has returned
C7_Witness ==
    /\ phase = "parsed"
    /\ GraphCyclic
    /\ storage["b"].include = << "main" >>
    /\ hist.merges = << "b", "a", "main" >>

-----------------------------------------------------------------------------
Defines(m, s) == \E i \in 1 .. Len(storage[m].stanzas) : storage[m].stanzas[i].key = s

StanzaNames == { "S", "R", "Begin" }

\* the module whose definition of stanza s the context holds
Owner(s) == ctx[s].path[1]

(* C8 as stated: in every include graph, once the parse has returned, a     *)
(* stanza defined by two includes of one list (other than the listing       *)
(* module itself) is not the earlier-listed module's, and a stanza defined  *)
(* by a module and by one of its includes is not the include's.             *)
C8_Original ==
    phase = "parsed" =>
        \A m \in included \cap DOMAIN storage :
            LET list == storage[m].include
            IN /\ \A i, j \in 1 .. Len(list) :
                    (i < j /\ list[i] # list[j] /\ m \notin { list[i], list[j] }) =>
                        \A s \in StanzaNames :
                            (Defines(list[i], s) /\ Defines(list[j], s)) =>
                                Owner(s) # list[i]
               /\ \A i \in 1 .. Len(list) :
                    list[i] # m =>
                        \A s \in StanzaNames :
                            (Defines(list[i], s) /\ Defines(m, s)) =>
                                Owner(s) # list[i]

\* the include was loaded at position i of module m's list
LoadedAt(inc, m, i) == inc \in DOMAIN hist.visited /\ hist.visited[inc] = <<m, i>>

(* C8 amended: the override order holds between modules that are loaded at  *)
(* their position in the list, that is, that were not visited before: a     *)
(* later-listed include loaded there overrides an earlier-listed include    *)
(* loaded there, and the including module overrides every include loaded    *)
(* from its list.                                                           *)
C8_OverrideOrderOfLoads ==
    phase = "parsed" =>
        \A m \in included \cap DOMAIN storage :
            LET list == storage[m].include
            IN /\ \A i, j \in 1 .. Len(list) :
                    (i < j /\ LoadedAt(list[i], m, i) /\ LoadedAt(list[j], m, j)) =>
                        \A s \in StanzaNames :
                            (Defines(list[i], s) /\ Defines(list[j], s)) =>
                                Owner(s) # list[i]
               /\ \A i \in 1 .. Len(list) :
                    LoadedAt(list[i], m, i) =>
                        \A s \in StanzaNames :
                            (Defines(list[i], s) /\ Defines(m, s)) =>
                                Owner(s) # list[i]

\* main includes a, then b, each loaded from main's list: S is b's and R is
\* main's
C8_Witness ==
    /\ phase = "parsed"
    /\ storage["main"].include = << "a", "b" >>
    /\ LoadedAt("a", "main", 1)
    /\ LoadedAt("b", "main", 2)
    /\ Owner("S") = "b"
    /\ Owner("R") = "main"

-----------------------------------------------------------------------------
(* C9: a template resolves every name the merged context binds, whichever   *)
(* module defined the template and whichever module, parsed before or       *)
(* after it, defined the name: a render never fails with a NameError for a  *)
(* name that is a stanza of the merged context.                             *)
C9_LateBinding ==
    (Finished("raised") /\ LastOutcome.err[1] = "NameError") =>
        LastOutcome.err[2] \notin DOMAIN ctx

\* N, defined by the included module a, has rendered an item that names P,
\* which the including module defines and which was parsed after N
C9_Witness ==
    /\ Finished("ok")
    /\ "N" \in DOMAIN ctx /\ Owner("N") = "a"
    /\ "P" \in DOMAIN ctx /\ Owner("P") = "main"
    /\ ctx["N"].mode = "reuse"
    /\ "P" \notin ctx["N"].items[1].seen
    /\ Len(LastOutcome.out) >= 2
    /\ LastOutcome.out[1] = Lit("n1")
    /\ LastOutcome.out[2] \in { Lit("p1"), Lit("p2") }

-----------------------------------------------------------------------------
(* C10: a module whose render value is not ftemplate, jinja2 or jinja makes *)
(* the parse raise when the module is parsed: the parse never returns with  *)
(* such a module loaded, and when it raises none of that module's own       *)
(* stanzas is in the context, no template was rendered and nothing was      *)
(* drawn from a random source.                                              *)
C10_UnknownRenderRaisesAtParse ==
    /\ (phase \in { "parsed", "render" } \/ Finished("ok")) =>
            \A m \in included \cap DOMAIN storage :
                RenderMode(storage[m]) \in ValidRenderModes
    /\ (Finished("raised") /\ LastOutcome.err[1] = "bad_render") =>
            LET m == LastOutcome.err[2]
            IN /\ RenderMode(storage[m]) \notin ValidRenderModes
               /\ \A n \in DOMAIN ctx \ { "seed" } : ctx[n].path[1] # m
               /\ hist.renders = 0
               /\ hist.draws = 0

\* the parse raised on module a, after the stanzas of b, included before a,
\* were merged
C10_Witness ==
    /\ Finished("raised")
    /\ LastOutcome.err = <<"bad_render", "a">>
    /\ "S" \in DOMAIN ctx /\ Owner("S") = "b"

-----------------------------------------------------------------------------
\* the raw value of stanza V and whether its parse has ended
RawV == storage["main"].stanzas[1].raw

ParseEnded == phase = "parsed" \/ Finished("raised")

StatedModes == { "reuse", "pick", "markov", "ratchet", "list" }

RECURSIVE Covered(_)
\* every list in the value has one of the modes the statement names
Covered(raw) ==
    CASE raw.shape = "list" ->
            /\ ListMode(raw) \in StatedModes
            /\ ListMode(raw) \in { "reuse", "pick" } =>
                  \A i \in 1 .. Len(raw.items) : Covered(raw.items[i])
      [] raw.shape = "map" -> \A i \in 1 .. Len(raw.entries) : Covered(raw.entries[i].raw)
      [] OTHER -> TRUE

RECURSIVE Conforms(_, _)
\* value v is what the statement says raw is parsed to, nothing rendered
\* and no factory called: the texts hold their templates, the Databases
\* all their items, an empty cache and index 0
Conforms(raw, v) ==
    CASE raw.shape = "list" /\ ListMode(raw) \in { "reuse", "pick" } ->
            /\ v.t = "db" /\ v.mode = ListMode(raw)
            /\ v.cache = << >> /\ v.index = 0
            /\ Len(v.items) = Len(raw.items)
            /\ \A i \in 1 .. Len(raw.items) : Conforms(raw.items[i], v.items[i])
      [] raw.shape = "list" /\ ListMode(raw) \in { "markov", "ratchet" } ->
            /\ v.t = "db" /\ v.mode = ListMode(raw)
            /\ v.cache = << >> /\ v.index = 0
            /\ Len(v.items) = Len(raw.items)
      [] raw.shape = "list" /\ ListMode(raw) = "list" ->
            v.t = "datalist" /\ Len(v.items) = Len(raw.items)
      [] raw.shape = "list" -> TRUE
      [] raw.shape = "map" ->
            /\ v.t = "databag"
            /\ Len(v.items) = Len(raw.entries)
            /\ \A i \in 1 .. Len(raw.entries) :
                  /\ v.items[i].key = raw.entries[i].key
                  /\ Conforms(raw.entries[i].raw, v.items[i].val)
      [] raw.shape = "bool" -> v.t = "bool" /\ v.v = raw.b
      [] OTHER ->
            /\ v.t = "text"
            /\ v.v = RStrip(LStrip(dedent(StrOf(raw))))

(* C11 as stated: parse_value returns, for a list a Database or Datalist of *)
(* its mode, for a mapping a Databag of recursively parsed children, for a  *)
(* boolean the boolean, and for any other value a RenderableText holding    *)
(* the dedented and stripped text, with nothing rendered and no factory     *)
(* called.                                                                  *)
C11_Original ==
    (ParseEnded /\ Covered(RawV)) =>
        /\ phase = "parsed"
        /\ Conforms(RawV, ctx["V"])
        /\ hist.renders = 0
        /\ hist.draws = 0

RECURSIVE StringScalars(_)
\* every scalar that parse_value reaches in the value is a string or a
\* boolean
StringScalars(raw) ==
    CASE raw.shape = "list" ->
            ListMode(raw) \in { "reuse", "pick" } =>
                \A i \in 1 .. Len(raw.items) : StringScalars(raw.items[i])
      [] raw.shape = "map" ->
            \A i \in 1 .. Len(raw.entries) : StringScalars(raw.entries[i].raw)
      [] OTHER -> raw.shape \in { "str", "bool" }

(* C11, what the code does: a value whose scalars are strings or booleans   *)
(* is parsed as stated, nothing rendered and no factory called; a value     *)
(* holding a number or null where parse_value reaches it makes the parse    *)
(* raise TypeError.                                                         *)
C11_ParsedShapes ==
    /\ (ParseEnded /\ Covered(RawV) /\ StringScalars(RawV)) =>
            /\ phase = "parsed"
            /\ Conforms(RawV, ctx["V"])
            /\ hist.renders = 0
            /\ hist.draws = 0
    /\ (ParseEnded /\ ~StringScalars(RawV)) =>
            /\ Finished("raised")
            /\ LastOutcome.err = <<"TypeError", "main">>

\* a list holding a pick list of one indented string was parsed: a Database
\* in a Database, its text stripped and not rendered
C11_Witness ==
    /\ phase = "parsed"
    /\ RawV = RawListOf("", << RawListOf("pick", << RawStr(<< Lit(" "), Lit("b"), Lit(" ") >>) >>) >>)
    /\ ctx["V"].mode = "reuse"
    /\ ctx["V"].items[1].mode = "pick"
    /\ ctx["V"].items[1].items[1].v = << Lit("b") >>


-----------------------------------------------------------------------------
(* Storages                                                                 *)

CachingVariants == { "cached", "compcached" }

Returned(i) == [status |-> resolved[i].status, doc |-> resolved[i].doc]

\* C12: for CachedFileStorage and CompilingCachedFileStorage, whatever the
\* callers did to the documents they were given, every later
\* resolve_module(name) returns a document equal to the one first loaded
\* for that name, as an object of its own: no two calls return the same
\* object and none returns the object the cache holds.
C12_CacheIsolated ==
    /\ \A i \in 1 .. Len(resolved), j \in 1 .. Len(resolved) :
          /\ i < j
          /\ resolved[i].variant \in CachingVariants
          /\ resolved[j].variant = resolved[i].variant
          /\ resolved[j].name = resolved[i].name
          /\ resolved[i].status = "ok"
          => /\ resolved[j].status = "ok"
             /\ resolved[j].doc = resolved[i].doc
    /\ \A i \in 1 .. Len(resolved), j \in 1 .. Len(resolved) :
          i # j /\ resolved[i].status = "ok" /\ resolved[j].status = "ok"
          => resolved[i].id # resolved[j].id
    /\ \A i \in 1 .. Len(resolved) :
          resolved[i].status = "ok" => heap[resolved[i].id].role = "caller"
    /\ \A n \in DOMAIN modules.cached : ~heap[modules.cached[n]].touched

\* a caller changed the first document it got from a caching storage, and
\* the same storage class returned the module again
C12_Witness ==
    /\ Len(resolved) = 2
    /\ resolved[1].variant \in CachingVariants
    /\ resolved[2].variant = resolved[1].variant
    /\ resolved[1].status = "ok"
    /\ heap[resolved[1].id].touched
    /\ heap[resolved[1].id].doc # resolved[1].doc
    /\ resolved[2].doc = resolved[1].doc

\* C13: every call of a caching variant (compiling, cached,
\* compiling-cached) ends as the uncached FileStorage of the same directory
\* ends at that moment, whatever calls, file changes and storage instances
\* came before.
C13_Original ==
    \A i \in 1 .. Len(resolved) :
        resolved[i].variant # "file" => Returned(i) = resolved[i].plain

\* C13, as far as the code goes: a caching variant ends as FileStorage does
\* while no file has changed and every earlier call for the name was made
\* on the same directory.
C13_FreshFilesOneDirectory ==
    \A j \in 1 .. Len(resolved) :
        /\ resolved[j].edits = 0
        /\ \A i \in 1 .. j - 1 :
              resolved[i].name = resolved[j].name => resolved[i].dir = resolved[j].dir
        => Returned(j) = resolved[j].plain

\* a second call of a caching variant on the same directory, answered from
\* the cache or the compiled file
C13_Witness ==
    /\ Len(resolved) = 2
    /\ edits = 0
    /\ resolved[1].variant = "compcached"
    /\ resolved[2].variant = "compcached"
    /\ resolved[1].dir = resolved[2].dir
    /\ resolved[2].status = "ok"
    /\ Returned(2) = resolved[2].plain

\* C14: a call for a name with no YAML file in the storage's directory
\* raises the module-not-found error, in every variant, and leaves the
\* in-memory caches and the compiled files as they were.
C14_Original ==
    \A i \in 1 .. Len(resolved) :
        resolved[i].plain.status = "not_found"
        => resolved[i].status = "not_found" /\ resolved[i].kept

\* C14, as far as the code goes: a call that raises the module-not-found
\* error was made for a name with no YAML file in the directory and left
\* the caches and the compiled files as they were; and a call for such a
\* name raises whenever the name was never resolved before.
C14_RaisesAndKeeps ==
    /\ \A i \in 1 .. Len(resolved) :
          resolved[i].status = "not_found"
          => resolved[i].plain.status = "not_found" /\ resolved[i].kept
    /\ \A j \in 1 .. Len(resolved) :
          /\ resolved[j].plain.status = "not_found"
          /\ \A i \in 1 .. j - 1 : resolved[i].name # resolved[j].name
          => resolved[j].status = "not_found"

\* a caching variant raised for a missing module, after another call
C14_Witness ==
    /\ Len(resolved) = 2
    /\ resolved[2].variant \in CachingVariants
    /\ resolved[2].status = "not_found"
    /\ resolved[1].status = "ok"
    /\ modules # [cached |-> << >>, compcached |-> << >>]


-----------------------------------------------------------------------------
(* Markov names                                                             *)

Constructed == call.pc # "new"

\* C15: constructing a NameGenerator with a chain length outside 1..10
\* raises the configuration error before any table is built, and with a
\* chain length inside 1..10 construction succeeds.
C15_Original ==
    Constructed =>
        IF call.chainlen \in 1 .. 10
        THEN call.pc # "failed"
        ELSE call.pc = "failed" /\ ret.status = "ValueError" /\ call.markov = << >>

\* C15, as far as the code goes: construction with a chain length inside
\* 1..10 succeeds and builds the table; for no chain length is the
\* configuration error raised.
C15_ValidChainLenBuilds ==
    /\ Constructed /\ call.chainlen \in 1 .. 10
       => call.pc # "failed" /\ (call.source_names # << >> => call.markov # << >>)
    /\ ret.status # "ValueError"

\* a generator was constructed with the largest chain length allowed
C15_Witness ==
    /\ call.pc = "built"
    /\ call.chainlen = 10
    /\ call.markov # << >>

\* C16: whatever the corpus, the start string and max_length, the string
\* get_random_name returns is never longer than max_length.
C16_Original ==
    ret.status = "ok" => Len(ret.value) <= call.max_length

\* C16, as far as the code goes: the returned string is never longer than
\* max_length when the start string is not, and it always begins with the
\* start string.
C16_BoundedFromShortStart ==
    ret.status = "ok" =>
        /\ Len(call.start) <= call.max_length => Len(ret.value) <= call.max_length
        /\ Len(ret.value) >= Len(call.start)
        /\ SubSeq(ret.value, 1, Len(call.start)) = call.start

\* a name was cut at max_length after the loop had added to the start
C16_Witness ==
    /\ ret.status = "ok"
    /\ Len(ret.value) = call.max_length
    /\ Len(call.start) < call.max_length
    /\ call.start # << >>

\* C17: when the prefix generation starts from has no candidates in the
\* table, get_random_name ends with the IndexError of choosing from an
\* empty sequence and returns no string.
C17_EmptyChoiceRaises ==
    /\ call.pc \in { "loop", "done" }
    /\ \/ InitialPrefix(call.start, call.chainlen) \notin DOMAIN call.markov
       \/ call.markov[InitialPrefix(call.start, call.chainlen)] = << >>
    => /\ ret.status # "ok"
       /\ call.pc = "done" => ret.status = "IndexError"
       /\ call.pc = "loop" => call.name = call.start

\* the error was raised over a table built from a corpus, for a start the
\* corpus does not know
C17_Witness ==
    /\ call.pc = "done"
    /\ ret.status = "IndexError"
    /\ call.source_names # << >>
    /\ call.start = <<"z">>
    /\ call.markov[InitialPrefix(call.start, call.chainlen)] = << >>


-----------------------------------------------------------------------------
(* Texts                                                                    *)

\* the completed renders of RenderableText instances, in order
Renders == hist.texts

SameInstance(i, j) ==
    Renders[i].path = Renders[j].path /\ Renders[i].toks = Renders[j].toks

\* a context as a caller can hand it over: the seed, the key and the
\* objects the names are bound to, without what the Databases hold inside
\* (items left, ratchet position, cache)
ContextView(c) ==
    [n \in DOMAIN c |->
        IF c[n].t = "db"
        THEN [c[n] EXCEPT !.items = << >>, !.index = 0, !.cache = << >>]
        ELSE c[n]]

Parsing == phase \in { "parse", "parsed" }

\* C19: constructing a text never renders it; rendering the same instance
\* again with the same context gives an equal string, whatever the template
\* references; and rendering leaves the instance as it was.
C19_Original ==
    /\ Parsing => Renders = << >> /\ hist.renders = 0
    /\ \A i \in 1 .. Len(Renders), j \in 1 .. Len(Renders) :
          SameInstance(i, j) /\ ContextView(Renders[i].start) = ContextView(Renders[j].start)
          => Renders[i].out = Renders[j].out

\* C19, amended: constructing a text never renders it; rendering the same
\* instance again gives an equal string when the context is the same with
\* the state of its Databases included (no ratchet advanced, no pick list
\* drawn from, no attribute cached in between); and rendering leaves the
\* instance as it was.
C19_RepeatableUnderSameState ==
    /\ [](/\ Parsing => Renders = << >> /\ hist.renders = 0
          /\ \A i \in 1 .. Len(Renders), j \in 1 .. Len(Renders) :
                SameInstance(i, j) /\ Renders[i].start = Renders[j].start
                => Renders[i].out = Renders[j].out)
    /\ [][phase = "render" =>
            \A n \in DOMAIN ctx :
                ctx[n].t = "text" => n \in DOMAIN ctx' /\ ctx'[n] = ctx[n]]_vars

\* one instance was rendered twice from the same state of the context,
\* with a reference in its template
C19_Witness ==
    \E i \in 1 .. Len(Renders), j \in 1 .. Len(Renders) :
        /\ i < j
        /\ SameInstance(i, j)
        /\ Renders[i].start = Renders[j].start
        /\ \E k \in 1 .. Len(Renders[i].toks) : Renders[i].toks[k].k = "ref"
        /\ Renders[i].out # << >>


\* C18: two texts are equal if and only if their raw values are equal,
\* whatever their contexts and renderings, and texts that compare equal
\* have equal hashes.
C18_Original ==
    ret.op = "eq" =>
        /\ ret.eq.status = "ok"
        /\ ret.eq.v <=> (call.x.value = call.other.value)
        /\ ret.eq.v => ret.hx = ret.hother

\* C18, as far as the code goes: the hash is that of the raw value, so
\* texts of equal raw values have equal hashes; two texts compare equal
\* if and only if their renderings are equal, which for two instances of
\* the base class Text means equal raw values.
C18_EqualByRendering ==
    ret.op = "eq" =>
        /\ call.x.value = call.other.value => ret.hx = ret.hother
        /\ ret.eq.status = "ok" =>
              (ret.eq.v <=> (text_str(call.x).v = text_str(call.other).v))
        /\ call.x.cls = "Text" /\ call.other.cls = "Text" =>
              /\ ret.eq.status = "ok"
              /\ ret.eq.v <=> (call.x.value = call.other.value)

\* two base Text instances of equal raw values and different contexts were
\* compared
C18_Witness ==
    /\ ret.op = "eq"
    /\ call.x.cls = "Text"
    /\ call.other.cls = "Text"
    /\ call.x.value = call.other.value
    /\ call.x.value # << >>
    /\ call.x.context # call.other.context
    /\ ret.eq.v
    /\ ret.hx = ret.hother

AnVowels == { "a", "e", "i", "o", "u", "A", "E", "I", "O", "U" }

\* the article the statement gives for a string
Stated(name, toks) ==
    IF toks = << >> THEN [status |-> "IndexError", v |-> ""]
    ELSE [status |-> "ok",
          v |-> IF FirstChar(toks) \in AnVowels
                THEN (IF name \in { "a", "an" } THEN "an" ELSE "An")
                ELSE (IF name \in { "a", "an" } THEN "a" ELSE "A")]

\* C20: the article helpers of a text are computed from the first character
\* of its raw value: a and an are 'an' for a, e, i, o, u in either case and
\* 'a' otherwise, A and An the capitalized form, and an empty raw value is
\* an IndexError; a RenderedStr computes them the same way from its own
\* first character.
C20_ArticlesFromRawValue ==
    ret.op = "article" =>
        /\ ret.own = Stated(ret.name, call.x.value)
        /\ text_str(call.x).status = "ok" =>
              ret.rendered = Stated(ret.name, text_str(call.x).v)

\* a RenderableText and its rendering gave different articles, the raw
\* value beginning with a brace and the rendering with a vowel
C20_Witness ==
    /\ ret.op = "article"
    /\ ret.name = "An"
    /\ call.x.cls = "RenderableText"
    /\ ret.own = [status |-> "ok", v |-> "A"]
    /\ ret.rendered = [status |-> "ok", v |-> "An"]

-----------------------------------------------------------------------------
(* C21: a lookup of a missing key in a Databag raises KeyError after       *)
(* logging a diagnostic that lists the keys; an index out of range in a    *)
(* Datalist raises IndexError, and nothing is logged for it; the container *)
(* is left as it was in both cases.                                        *)

Missed(i) == ret[i].status \in { "KeyError", "IndexError" }

C21_Original ==
    \A i \in 1 .. Len(ret) :
        Missed(i) => ret[i].logged # << >> /\ call.container.entries = call.made

C21_MissingRaises ==
    \A i \in 1 .. Len(ret) :
        /\ Missed(i) => call.container.entries = call.made
        /\ ret[i].status = "KeyError" =>
              /\ call.container.cls = "Databag"
              /\ \A j \in 1 .. Len(call.made) : call.made[j].key # PyStr(ret[i].key)
              /\ ret[i].logged = << [key |-> ret[i].key, available |-> KeysOf(call.made)] >>
        /\ ret[i].status = "IndexError" =>
              /\ call.container.cls = "Datalist"
              /\ ~PyIndexOk(call.made, ret[i].key.n)
              /\ ret[i].logged = << >>
        /\ call.container.cls = "Databag"
              /\ (\A j \in 1 .. Len(call.made) : call.made[j].key # PyStr(ret[i].key))
              => ret[i].status = "KeyError"
        /\ call.container.cls = "Datalist" /\ ret[i].key.t = "int"
              /\ ~PyIndexOk(call.made, ret[i].key.n)
              => ret[i].status = "IndexError"

\* an index out of range was looked up in a list of two items
C21_Witness ==
    /\ call.container.cls = "Datalist"
    /\ Len(call.made) = 2
    /\ \E i \in 1 .. Len(ret) : ret[i].status = "IndexError" /\ ret[i].key = IntKey(2)
    /\ call.log = << >>

-----------------------------------------------------------------------------
(* C22: a lookup in a Databag or a Datalist returns a value that is not a  *)
(* Text as it is stored, and a Text rendered against the context of the    *)
(* container as it was bound at the access; the stored entry is never      *)
(* replaced by its rendering.                                              *)

\* the stored value the i-th lookup addressed
Looked(i) ==
    IF call.container.cls = "Databag"
    THEN call.made[CHOOSE j \in 1 .. Len(call.made) : call.made[j].key = PyStr(ret[i].key)].value
    ELSE PyIndex(call.made, ret[i].key.n)

Hit(i) == ret[i].status \in { "ok", "NameError" }

C22_RenderedAtAccess ==
    /\ call.container.entries = call.made
    /\ \A i \in 1 .. Len(ret) :
          Hit(i) =>
              CASE Looked(i).cls = "str" ->
                       ret[i].status = "ok" /\ ret[i].v = Looked(i).value
                [] Looked(i).cls = "Text" ->
                       ret[i].status = "ok" /\ ret[i].v = Looked(i).value
                [] OTHER ->
                       /\ ret[i].status = render_ftemplate(Looked(i).value, ret[i].at).status
                       /\ ret[i].v = render_ftemplate(Looked(i).value, ret[i].at).v

\* one entry, a template, was looked up under two bindings of its name and
\* gave two strings
C22_Witness ==
    /\ Len(ret) = 2
    /\ ret[1].key = ret[2].key
    /\ ret[1].status = "ok" /\ ret[2].status = "ok"
    /\ Looked(1).cls = "RenderableText"
    /\ ret[1].at # ret[2].at
    /\ ret[1].v = <<Lit("e"), Lit("g")>>
    /\ ret[2].v = <<Lit("p"), Lit("g")>>

-----------------------------------------------------------------------------
(* C23: get_seed returns the stored seed when the key is absent or None    *)
(* and the stored seed joined to the key by a hyphen otherwise, having     *)
(* first stored a fresh 32-digit seed when the dict has none and replaced  *)
(* a stored random source by a seed made from it; a stored string is left  *)
(* unchanged, the joined string is never stored, and two consecutive calls *)
(* return the same value.                                                  *)

GetSeedOps == { i \in 1 .. Len(ret) : ret[i].op = "get_seed" }

HasKey(c) == "key" \in DOMAIN c /\ c["key"].t # "none"

IsDigest(x) == x.t = "str" /\ Len(x.v) = 1 /\ x.v[1].k = "hex"

IsSource(x) == x.t \in { "module", "rng" }

\* the statement as it stands: with a key, the stored seed is the one that
\* was stored before the call
C23_Original ==
    \A i \in GetSeedOps :
        /\ ~HasKey(ret[i].before) => ret[i].v = ret[i].after["seed"]
        /\ HasKey(ret[i].before) /\ "seed" \in DOMAIN ret[i].before
              => /\ ret[i].v = Combined(ret[i].after["seed"], ret[i].before["key"])
                 /\ ret[i].after["seed"] = ret[i].before["seed"]
        /\ i + 1 \in GetSeedOps => ret[i + 1].v = ret[i].v

C23_ReturnsStoredOrJoined ==
    \A i \in GetSeedOps :
        LET before == ret[i].before
            after == ret[i].after
        IN /\ "seed" \in DOMAIN after
           /\ IF HasKey(before)
              THEN ret[i].v = Combined(after["seed"], before["key"])
              ELSE ret[i].v = after["seed"]
           /\ "seed" \in DOMAIN before /\ ~IsSource(before["seed"])
                 => after = before /\ ret[i].rngs = ret[i].drawn
           /\ "seed" \notin DOMAIN before \/ IsSource(before["seed"])
                 => /\ IsDigest(after["seed"])
                    /\ after = CtxSet(before, "seed", after["seed"])
           /\ i + 1 \in GetSeedOps
                 => ret[i + 1].v = ret[i].v /\ ret[i + 1].after = after

\* a dict holding a Random and a key was asked twice
C23_Witness ==
    /\ Len(ret) >= 2
    /\ ret[1].op = "get_seed" /\ ret[2].op = "get_seed"
    /\ "seed" \in DOMAIN ret[1].before
    /\ ret[1].before["seed"] = Handle
    /\ HasKey(ret[1].before)
    /\ ret[1].after["seed"] # ret[1].before["seed"]
    /\ ret[2].v = ret[1].v

-----------------------------------------------------------------------------
(* C24: after set_seed, and so after get_context, the seed of the context  *)
(* is a string when the argument was None, the module random, a Random or  *)
(* a string: a string is stored as it is, anything else is replaced by a   *)
(* 32-digit string made from exactly one draw of the source, so two calls  *)
(* given the same Random store different seeds.                            *)

SetSeedOps == { i \in 1 .. Len(ret) : ret[i].op \in { "set_seed", "get_context" } }

C24_SeedIsString ==
    \A i \in SetSeedOps :
        LET seed == ret[i].after["seed"]
            src == SourceOf(ret[i].arg)
        IN /\ seed.t = "str"
           /\ DOMAIN ret[i].after =
                 (IF ret[i].op = "set_seed" THEN DOMAIN ret[i].before ELSE {}) \cup { "seed" }
           /\ IF ret[i].arg.t = "str"
              THEN seed = ret[i].arg /\ ret[i].rngs = ret[i].drawn
              ELSE /\ IsDigest(seed)
                   /\ ret[i].rngs = [ret[i].drawn EXCEPT ![src] = @ + 1]
           /\ \A j \in SetSeedOps :
                 j < i /\ ret[j].arg = ret[i].arg /\ ret[i].arg.t # "str"
                     => ret[j].after["seed"] # seed

\* two contexts were made from the same Random
C24_Witness ==
    /\ Len(ret) >= 2
    /\ ret[1].op = "get_context" /\ ret[2].op = "get_context"
    /\ ret[1].arg = Handle /\ ret[2].arg = Handle
    /\ ret[1].after["seed"] # ret[2].after["seed"]
    /\ ret[2].rngs["handle"] = 2

-----------------------------------------------------------------------------
(* C25: within one render_story call the factory calls made on a ratchet   *)
(* stanza of n >= 1 items, by bare references and by first accesses of an  *)
(* attribute, from whatever template, receive items[0], items[1 mod n],    *)
(* ... in the order they are made, so the k bare references of a template  *)
(* that is the stanza's only user receive items[0] .. items[(k-1) mod n];  *)
(* every render_story call starts again from items[0], whatever its seed.  *)

IsRatchet(c, name) ==
    /\ name \in DOMAIN c
    /\ c[name].t = "db"
    /\ c[name].mode = "ratchet"
    /\ c[name].items # << >>

\* a factory call on the stanza is about to be made
FactoryDue(name) ==
    /\ phase = "render"
    /\ RTop.kind \in { "str", "getattr" }
    /\ RTop.st = "call"
    /\ RTop.name = name

RECURSIVE BareBefore(_, _, _, _)
\* the bare references to name the strategy evaluates before position pos
BareBefore(toks, pos, name, strat) ==
    IF pos <= 1 THEN 0
    ELSE BareBefore(toks, pos - 1, name, strat)
         + (IF Evaluated(toks[pos - 1], strat) /\ toks[pos - 1].s = name
               /\ toks[pos - 1].attr = ""
            THEN 1 ELSE 0)

\* the template of the activation below the top one makes a bare reference
\* to a ratchet stanza
BareRatchetCall ==
    /\ phase = "render"
    /\ Len(rstack) >= 2
    /\ RTop.kind = "str"
    /\ RTop.st = "call"
    /\ rstack[Len(rstack) - 1].kind = "tmpl"
    /\ IsRatchet(ctx, RTop.name)

\* every reference the template makes to a name the context binds is the
\* bare reference to the stanza, and the template is the start stanza's
SoleUser(frame, name) ==
    /\ Len(rstack) = 3
    /\ \A i \in 1 .. Len(frame.toks) :
          Evaluated(frame.toks[i], frame.strat) /\ frame.toks[i].s \in DOMAIN ctx
              => frame.toks[i].s = name /\ frame.toks[i].attr = ""

\* the statement as it stands: the j-th bare reference of any template
\* receives items[(j-1) mod n]
C25_Original ==
    BareRatchetCall =>
        LET parent == rstack[Len(rstack) - 1]
            obj == ctx[RTop.name]
        IN obj.index = BareBefore(parent.toks, parent.pos, RTop.name, parent.strat)
                          % Len(obj.items)

C25_RatchetInCallOrder ==
    [][ /\ phase = "parsed" =>
              \A name \in DOMAIN ctx : IsRatchet(ctx, name) => ctx[name].index = 0
        /\ \A name \in DOMAIN ctx \cap DOMAIN ctx' :
              IsRatchet(ctx, name) /\ phase \in { "parsed", "render" } =>
                  IF FactoryDue(name)
                  THEN /\ rstack'[Len(rstack)].st = "got"
                       /\ rstack'[Len(rstack)].val = ctx[name].items[ctx[name].index + 1]
                       /\ ctx'[name].index = (ctx[name].index + 1) % Len(ctx[name].items)
                       /\ ctx'[name].items = ctx[name].items
                  ELSE ctx'[name].index = ctx[name].index
        /\ BareRatchetCall /\ SoleUser(rstack[Len(rstack) - 1], RTop.name) =>
              LET parent == rstack[Len(rstack) - 1]
                  obj == ctx[RTop.name]
              IN obj.index = BareBefore(parent.toks, parent.pos, RTop.name, parent.strat)
                                % Len(obj.items)
      ]_vars

\* the second render_story call, under another seed than the first, has
\* given the second bare reference of the start template the second item,
\* the first call having returned the two items in order
C25_Witness ==
    /\ phase = "render"
    /\ Len(outcomes) = 1
    /\ outcomes[1].status = "ok"
    /\ outcomes[1].seed # args.seed
    /\ Len(rstack) = 3
    /\ RTop.kind = "str" /\ RTop.st = "got"
    /\ IsRatchet(ctx, RTop.name)
    /\ SoleUser(rstack[2], RTop.name)
    /\ rstack[2].pos = 2
    /\ rstack[2].out = ctx[RTop.name].items[1].v
    /\ RTop.val = ctx[RTop.name].items[2]
    /\ outcomes[1].out = ctx[RTop.name].items[1].v \o ctx[RTop.name].items[2].v

-----------------------------------------------------------------------------
(* C26: while the factory runs for the first access of attribute attr of a *)
(* Database, the context has key = attr and seed = S-attr, S being the     *)
(* seed in force when the access began; an access nested in another began  *)
(* under the outer one's derived seed, so the seeds gain one -attr suffix  *)
(* per level.                                                              *)

\* the __getattr__ activations in progress, by position in the stack
GetattrLevels == { i \in 1 .. Len(rstack) : rstack[i].kind = "getattr" }

Innermost(i) == \A j \in GetattrLevels : j <= i

C26_FactoryUnderDerivedSeed ==
    phase = "render" =>
        \A i \in GetattrLevels :
            /\ rstack[i].old.seed =
                  RenderedStr(SeedUnder(args.seed.v, SubSeq(rstack, 1, i - 1)))
            /\ Innermost(i) /\ rstack[i].st \in { "call", "wait" } =>
                  /\ ctx["key"] = RenderedStr(<<Lit(rstack[i].attr)>>)
                  /\ ctx["seed"] =
                        RenderedStr(rstack[i].old.seed.v \o <<Lit("-"), Lit(rstack[i].attr)>>)

\* the factory of P runs for P.x inside the resolution of N.x: the seed has
\* gained two suffixes
C26_Witness ==
    /\ phase = "render"
    /\ Cardinality(GetattrLevels) = 2
    /\ RTop.kind = "getattr" /\ RTop.st = "call"
    /\ RTop.name = "P" /\ RTop.attr = "x"
    /\ \E i \in GetattrLevels : rstack[i].name = "N" /\ rstack[i].attr = "x"
    /\ ctx["seed"] = RenderedStr(args.seed.v \o <<Lit("-"), Lit("x"), Lit("-"), Lit("x")>>)
    /\ ctx["key"] = RenderedStr(<<Lit("x")>>)

-----------------------------------------------------------------------------
(* C27: when the factory raises during the resolution of attribute attr,   *)
(* the exception leaves update_context before its restoring statement:    *)
(* the context keeps key = attr and the derived seed, and the cache gains  *)
(* nothing; after a normal return the seed is the one before the access    *)
(* and the key the one before it, None where there was none.               *)

\* the accesses that took the factory branch of __getattr__
Resolutions ==
    { i \in 1 .. Len(ret) : ret[i].op = "getattr" /\ ret[i].attr \notin DOMAIN ret[i].db.cache }

\* the statement as it stands: seed and key are put back when the factory
\* raises
C27_Original ==
    \A i \in Resolutions :
        ret[i].status # "ok" =>
            /\ ret[i].after["seed"] = ret[i].context["seed"]
            /\ CtxGet(ret[i].after, "key") = CtxGet(ret[i].context, "key")

C27_RaiseKeepsOverride ==
    \A i \in Resolutions :
        IF ret[i].status = "ok"
        THEN /\ ret[i].after["seed"] = ret[i].context["seed"]
             /\ ret[i].after["key"] = CtxGet(ret[i].context, "key")
        ELSE /\ ret[i].after["seed"] = DerivedSeed(ret[i].context, ret[i].attr)
             /\ ret[i].after["key"] = RenderedStr(<<Lit(ret[i].attr)>>)
             /\ ret[i].dbAfter = ret[i].db

\* two accesses failed one after the other: the second derived its seed
\* from the seed the first left behind
C27_Witness ==
    /\ Len(ret) >= 2
    /\ { 1, 2 } \subseteq Resolutions
    /\ ret[1].status = "IndexError" /\ ret[2].status = "IndexError"
    /\ ret[1].attr = "x" /\ ret[2].attr = "y"
    /\ ret[2].after["seed"] =
          RenderedStr(ret[1].context["seed"].v \o <<Lit("-"), Lit("x"), Lit("-"), Lit("y")>>)

-----------------------------------------------------------------------------
(* C28: a stringification of a Database calls the factory exactly once,    *)
(* with the shared context as it is, no key or seed overridden; it reads   *)
(* and writes no cache entry, so a repeated stringification evaluates      *)
(* again and the cached attribute values stay as they were.                *)

Stringified == { i \in 1 .. Len(ret) : ret[i].op = "str" }

C28_StrCallsFactoryOnce ==
    \A i \in Stringified :
        LET r == factory_call(ret[i].db, ret[i].context)
        IN /\ ret[i].after = ret[i].context
           /\ ret[i].dbAfter.cache = ret[i].db.cache
           /\ ret[i].status = r.status
           /\ ret[i].dbAfter = r.db
           /\ ret[i].status = "ok" => ret[i].v = RenderedStr(r.v.v)

\* a ratchet resolver with x cached was stringified twice: two values, the
\* second other than the cached one, and the cache as it was
C28_Witness ==
    /\ Len(ret) = 3
    /\ ret[1].op = "getattr" /\ ret[1].attr = "x" /\ ret[1].status = "ok"
    /\ ret[2].op = "str" /\ ret[3].op = "str"
    /\ call.db.mode = "ratchet"
    /\ ret[2].v # ret[3].v
    /\ ret[3].v = ret[1].v
    /\ ret[2].v # ret[1].v
    /\ call.db.cache = ret[1].dbAfter.cache

-----------------------------------------------------------------------------
(* C29: the first access of a str method name m on a Database applies m to *)
(* the value one stringification gives at that moment and keeps the bound  *)
(* method in the cache; every later db.m() answers from that first value   *)
(* without calling the factory.                                            *)

MethodCalls == { i \in 1 .. Len(ret) : ret[i].op = "method" }

\* the statement as it stands: at any point db.m() is m applied to the
\* value a stringification gives at that point
C29_Original ==
    \A i \in MethodCalls :
        LET s == database_str(ret[i].db, ret[i].context)
        IN ret[i].status = "ok" /\ s.status = "ok"
              => ret[i].v = RenderedStr(str_method(ret[i].attr, s.v.v))

C29_MethodOfFirstValue ==
    \A i \in MethodCalls :
        LET s == database_str(ret[i].db, ret[i].context)
        IN /\ ret[i].after = ret[i].context
           /\ IF ret[i].attr \in DOMAIN ret[i].db.cache
              THEN /\ ret[i].status = "ok"
                   /\ ret[i].dbAfter = ret[i].db
                   /\ ret[i].v = RenderedStr(str_method(ret[i].attr,
                                                        ret[i].db.cache[ret[i].attr].v))
              ELSE /\ ret[i].status = s.status
                   /\ s.status = "ok" =>
                         /\ ret[i].v = RenderedStr(str_method(ret[i].attr, s.v.v))
                         /\ ret[i].dbAfter =
                               CacheSet(s.db, ret[i].attr, BoundMethod(ret[i].attr, s.v))
           /\ \A j \in MethodCalls :
                 j < i /\ ret[j].attr = ret[i].attr /\ ret[j].status = "ok"
                     => ret[i].v = ret[j].v

\* upper() of a ratchet resolver over a, b was called twice: A both times,
\* while a stringification in between gave b and one after would give a
C29_Witness ==
    /\ Len(ret) = 3
    /\ call.db.mode = "ratchet"
    /\ ret[1].op = "method" /\ ret[1].attr = "upper"
    /\ ret[2].op = "str"
    /\ ret[3].op = "method" /\ ret[3].attr = "upper"
    /\ ret[1].v = RenderedStr(<<Lit("A")>>)
    /\ ret[2].v = RenderedStr(<<Lit("b")>>)
    /\ ret[3].v = RenderedStr(<<Lit("A")>>)

-----------------------------------------------------------------------------
(* C30: the prefix get_random_name starts from is the last chainlen        *)
(* characters of a start string at least that long and chainlen spaces for *)
(* the empty start; a start string that is shorter and not empty is taken  *)
(* as it is, not padded, and no key of the table being that short, the     *)
(* generation ends with the IndexError of an empty choice.                 *)

\* get_random_name has set the prefix and the loop has not yet added to it
AtLoopStart == call.pc = "loop" /\ call.name = call.start

ValidChainLen == call.chainlen \in 1 .. 10

\* the statement as it stands: the prefix always has chainlen characters, a
\* shorter start being padded with spaces on the left
C30_Original ==
    AtLoopStart /\ ValidChainLen =>
        /\ Len(call.prefix) = call.chainlen
        /\ Len(call.start) < call.chainlen =>
              call.prefix = Spaces(call.chainlen - Len(call.start)) \o call.start

C30_PrefixFromStart ==
    ValidChainLen =>
        /\ AtLoopStart =>
              CASE call.start = << >> -> call.prefix = Spaces(call.chainlen)
                [] Len(call.start) >= call.chainlen ->
                      call.prefix = SubSeq(call.start, Len(call.start) - call.chainlen + 1,
                                           Len(call.start))
                [] OTHER -> call.prefix = call.start
        /\ call.pc = "done" /\ call.start # << >> /\ Len(call.start) < call.chainlen =>
              ret.status = "IndexError" /\ call.name = call.start

\* one character was given as the start of a generator of chain length 2
\* built from a corpus that has names beginning with it
C30_Witness ==
    /\ call.pc = "done"
    /\ call.chainlen = 2
    /\ call.start = <<"a">>
    /\ call.prefix = <<"a">>
    /\ call.source_names = << <<"a", "b">>, <<"b", "a">> >>
    /\ ret.status = "IndexError"

-----------------------------------------------------------------------------
(* C31: get_random_name returns whenever the prefix it starts from has     *)
(* candidates, the start is no longer than max_length and no prefix it can *)
(* reach has hyphens as its only candidates, every candidate that can be   *)
(* sampled again and again being sampled at last; a hyphen is skipped and  *)
(* the same prefix sampled again, so a prefix whose candidates are all     *)
(* hyphens is sampled for ever.                                            *)

\* the loop is entered from a prefix that has candidates, by a generator of
\* a valid chain length and a start within max_length
LoopEntered ==
    /\ AtLoopStart
    /\ ValidChainLen
    /\ Len(call.start) <= call.max_length
    /\ Candidates(call.markov, call.prefix) # << >>

\* some prefix of the table has candidates and all of them are hyphens
HyphenTrap(markov) ==
    \E prefix \in DOMAIN markov :
        /\ markov[prefix] # << >>
        /\ \A i \in 1 .. Len(markov[prefix]) : markov[prefix][i] = "-"

NameReturned == call.pc = "done" /\ ret.status = "ok"

\* the statement as it stands: hyphens or not, the call returns
C31_Original == LoopEntered ~> NameReturned

C31_ReturnsUnlessHyphenTrap ==
    /\ (LoopEntered /\ ~HyphenTrap(call.markov)) ~> NameReturned
    /\ [][call.pc = "loop" /\ Candidates(call.markov, call.prefix) # << >>
             /\ (\A i \in 1 .. Len(call.markov[call.prefix]) :
                    call.markov[call.prefix][i] = "-")
          => call'.pc = "loop" /\ call'.name = call.name]_vars

\* a name was returned from a corpus with a hyphen: at the prefix where the
\* hyphen is a candidate the other candidate was taken
C31_Witness ==
    /\ NameReturned
    /\ call.source_names = << <<"a", "-">>, <<"a", "b">> >>
    /\ call.chainlen = 2
    /\ call.start = << >>
    /\ call.markov[<<" ", "a">>] = <<"-", "b">>
    /\ ret.value = <<"a", "b">>

-----------------------------------------------------------------------------
(* C38: in a generator of a chain length within 1..10, when the prefix     *)
(* generation starts from has a candidate, every prefix reached afterwards *)
(* has one too, so the choice can fail on the first turn of the loop only. *)

StartHasCandidates ==
    Candidates(call.markov, InitialPrefix(call.start, call.chainlen)) # << >>

\* the statement as it stands, for every generator that was constructed
C38_Original ==
    /\ call.pc = "loop" /\ StartHasCandidates =>
          Candidates(call.markov, call.prefix) # << >>
    /\ call.pc = "done" /\ ret.status = "IndexError" => call.name = call.start

C38_PrefixesKeepCandidates ==
    ValidChainLen =>
        /\ call.pc = "loop" /\ StartHasCandidates =>
              Candidates(call.markov, call.prefix) # << >>
        /\ call.pc = "done" /\ ret.status = "IndexError" =>
              /\ call.name = call.start
              /\ call.markov[InitialPrefix(call.start, call.chainlen)] = << >>
        /\ \A prefix \in DOMAIN call.markov :
              \A i \in 1 .. Len(call.markov[prefix]) :
                  call.markov[prefix][i] # "\n" /\ Len(prefix) = call.chainlen =>
                      Candidates(call.markov,
                                 Append(PySlice(prefix, 1, Len(prefix)), call.markov[prefix][i]))
                          # << >>

\* the loop has added two characters and stands at a prefix that was not
\* the first, in a table where the names cross
C38_Witness ==
    /\ call.pc = "loop"
    /\ call.chainlen = 2
    /\ call.source_names = << <<"a", "b">>, <<"b", "a">> >>
    /\ Len(call.name) = Len(call.start) + 2
    /\ call.prefix # InitialPrefix(call.start, call.chainlen)
    /\ Candidates(call.markov, call.prefix) # << >>

-----------------------------------------------------------------------------
(* C32: get_list_setting takes the first element for the mode marker, and  *)
(* removes it, only when it is a mapping of exactly the one key mode; for  *)
(* the empty list, a first element that is no mapping, a mapping of        *)
(* another key or of more keys, the mode is reuse and the list comes back  *)
(* with all its elements.                                                  *)

\* the list is headed by a mapping whose only key is mode
Marked(value) ==
    /\ value # << >>
    /\ value[1].shape = "map"
    /\ { value[1].entries[i].key : i \in 1 .. Len(value[1].entries) } = { "mode" }

C32_OnlySingleModeMapping ==
    call.pc = "done" =>
        IF Marked(call.value)
        THEN /\ ret.mode = call.value[1].entries[1].raw
             /\ ret.value = [i \in 1 .. Len(call.value) - 1 |-> call.value[i + 1]]
        ELSE /\ ret.mode = RawStr(<<Lit("reuse")>>)
             /\ ret.value = call.value

\* a mapping of the keys mode and other heads the list and stays in it
C32_Witness ==
    /\ call.pc = "done"
    /\ Len(call.value) = 2
    /\ call.value[1].shape = "map"
    /\ Len(call.value[1].entries) = 2
    /\ call.value[1].entries[1].key = "mode"
    /\ ret.mode = RawStr(<<Lit("reuse")>>)
    /\ ret.value = call.value

-----------------------------------------------------------------------------
(* C33: during one top-level parse_grammar_file call resolve_module is      *)
(* called at most once for each module name, whatever the include graph:    *)
(* a module's document was loaded exactly when its name is in the included  *)
(* set and the storage holds it, a load or a failed lookup happens only for *)
(* a name that was not in the set, and an include that names a module of    *)
(* the set moves on to the next include with nothing loaded or merged.      *)

\* parse_includes stands at an include naming module m
AtInclude(m) ==
    /\ phase = "parse"
    /\ PTop.i <= Len(PTop.include)
    /\ PTop.include[PTop.i] = m

C33_ResolvedOncePerModule ==
    /\ [](\A m \in Modules :
            hist.loads[m] = IF m \in included THEN 1 ELSE 0)
    /\ [][\A m \in Modules :
            hist'.loads[m] > hist.loads[m] =>
                \/ phase = "idle" /\ m = TopModule
                \/ AtInclude(m) /\ m \notin included /\ m \in included']_vars
    /\ [][\A m \in Modules \cup { "zz" } :
            AtInclude(m) /\ Len(outcomes') > Len(outcomes) =>
                m \notin DOMAIN storage /\ m \notin included]_vars
    /\ [][\A m \in Modules :
            AtInclude(m) /\ m \in included =>
                /\ pstack' = PAdvance
                /\ UNCHANGED <<ctx, hist, included, storage, outcomes>>]_vars

\* a diamond: main includes a and b, a includes b; b was loaded from a and
\* skipped at main's second include
C33_Witness ==
    /\ phase = "parsed"
    /\ storage["main"].include = << "a", "b" >>
    /\ storage["a"].include = << "b" >>
    /\ storage["b"].include = << >>
    /\ \A m \in Modules : hist.loads[m] = 1
    /\ hist.visited["b"] = << "a", 1 >>
    /\ hist.merges = << "b", "a", "main" >>

-----------------------------------------------------------------------------
(* C34: a list whose marker names a mode other than reuse, pick, markov,   *)
(* ratchet and list is parsed without an error to None, whatever its       *)
(* items, and the stanza is bound to None in the context.                  *)

UnknownMode == RawV.shape = "list" /\ RawV.marker \notin StatedModes \cup { "" }

C34_UnknownModeIsNone ==
    (ParseEnded /\ UnknownMode) =>
        /\ phase = "parsed"
        /\ outcomes = << >>
        /\ "V" \in DOMAIN ctx
        /\ ctx["V"] = NoneVal
        /\ ctx = CtxSet(get_context(args.seed), "V", NoneVal)

\* a list of mode bogus holding an integer and a string
C34_Witness ==
    /\ phase = "parsed"
    /\ RawV.shape = "list"
    /\ RawV.marker = "bogus"
    /\ Len(RawV.items) = 2
    /\ RawV.items[1].shape = "int"
    /\ RawV.items[2].shape = "str"
    /\ ctx["V"] = NoneVal

-----------------------------------------------------------------------------
(* C35: the items of ratchet, markov and list productions are stored as    *)
(* plain strings, str(item) of what the document holds, and a use gives    *)
(* them as they are, spans and all, under either strategy; the string      *)
(* items of reuse and pick productions and scalar stanzas are stored as    *)
(* texts and every use gives the template with the spans of the module's   *)
(* strategy evaluated.                                                     *)

StrategyOfV == parse_render_strategy(RenderMode(storage[TopModule]))

\* the template with each span of the strategy's syntax replaced by the
\* seed, the one name these documents use
Interpolated(toks) ==
    [k \in 1 .. Len(toks) |->
        IF toks[k].k = "ref" /\ toks[k].syn = (IF StrategyOfV = "ftemplate" THEN "f" ELSE "j")
        THEN args.seed.v[1]
        ELSE [toks[k] EXCEPT !.k = "lit"]]

PlainModes == { "ratchet", "markov", "list" }

-----------------------------------------------------------------------------
\* the modules merged so far that define stanza n, and the one merged last
Definers(n) ==
    { i \in 1 .. Len(hist.merges) : Defines(hist.merges[i], n) }

LastDefiner(n) == hist.merges[CHOOSE i \in Definers(n) : \A j \in Definers(n) : j <= i]

\* the context render_story built before the parse
Before == CtxSet(args.kwargs, "seed", args.seed)

(* C36: parse_grammar_file leaves the context's entries seed and key as    *)
(* they were (key absent when it was absent) for as long as no merged      *)
(* document defines a stanza of that name; from the merge of such a        *)
(* document on, the entry is that stanza's parsed value: a stanza named    *)
(* seed replaces the seed.                                                 *)
C36_SeedAndKeyKeptUnlessDefined ==
    phase \in { "parse", "parsed" } =>
        \A n \in { "seed", "key" } :
            IF Definers(n) = {}
            THEN /\ n \in DOMAIN ctx <=> n \in DOMAIN Before
                 /\ n \in DOMAIN ctx => ctx[n] = Before[n]
            ELSE /\ n \in DOMAIN ctx
                 /\ is_text(ctx[n])
                 /\ ctx[n].path = StanzaPath(LastDefiner(n), n)
                 /\ ctx[n].v = << Lit(LastDefiner(n)) >>

\* the included module's stanza seed took the place of the seed, and the
\* key given as a keyword parameter is as it was
C36_Witness ==
    /\ phase = "parsed"
    /\ hist.merges = << "a", "main" >>
    /\ Defines("a", "seed")
    /\ ~Defines("main", "seed")
    /\ ctx["seed"].path = StanzaPath("a", "seed")
    /\ args.seed = RenderedStr(<< Lit("s1") >>)
    /\ Definers("key") = {}
    /\ "key" \in DOMAIN args.kwargs
    /\ ctx["key"] = args.kwargs["key"]

-----------------------------------------------------------------------------
\* the start template and what a span naming n gives in the finished call
BeginTmpl == storage[TopModule].stanzas[1].raw.text

\* the modules parsed, the includes before their includer
ClosureOrder == IF storage[TopModule].include = << >> THEN << "main" >> ELSE << "a", "main" >>

StanzaOwners(n) == { i \in 1 .. Len(ClosureOrder) : Defines(ClosureOrder[i], n) }

Shown(n) ==
    IF StanzaOwners(n) # {}
    THEN << Lit(ClosureOrder[CHOOSE i \in StanzaOwners(n) : \A j \in StanzaOwners(n) : j <= i]) >>
    ELSE IF n = "seed" THEN LastOutcome.seed.v
         ELSE args.kwargs[n].v

Bound(n) == StanzaOwners(n) # {} \/ n = "seed" \/ n \in DOMAIN args.kwargs

(* C37: a template sees a keyword parameter of render_story exactly when   *)
(* no stanza of the include closure has its name: the call returns the     *)
(* start template with each span replaced by the stanza of that name from  *)
(* the module parsed last, else by the keyword parameter (or the seed),    *)
(* and raises NameError when a span's name is neither.                     *)
C37_KwargVisibleUnlessStanza ==
    (phase = "idle" /\ outcomes # << >>) =>
        IF \A k \in { 1, 3 } : Bound(BeginTmpl[k].s)
        THEN /\ LastOutcome.status = "ok"
             /\ LastOutcome.out = Shown(BeginTmpl[1].s) \o << Lit("/") >> \o Shown(BeginTmpl[3].s)
        ELSE /\ LastOutcome.status = "raised"
             /\ LastOutcome.err[1] = "NameError"

\* who was given as a keyword parameter and key too; the included module
\* defines who, no module defines key: the stanza is shown for who, the
\* parameter for key
C37_Witness ==
    /\ Finished("ok")
    /\ BeginTmpl[1].s = "key"
    /\ DOMAIN args.kwargs = { "who", "key" }
    /\ Defines("a", "who")
    /\ ~Defines("main", "who")
    /\ storage[TopModule].include = << "a" >>
    /\ StanzaOwners("key") = {}
    /\ LastOutcome.out = << Lit("kw"), Lit("key"), Lit("/"), Lit("a") >>

-----------------------------------------------------------------------------
\* the strategy module m declares: ftemplate when its document has no
\* render entry
Declared(m) ==
    CASE storage[m].render \in { "", "ftemplate" } -> "ftemplate"
      [] storage[m].render \in { "jinja2", "jinja" } -> "jinja2"
      [] OTHER -> "none"

\* the syntax of the spans a strategy evaluates
SyntaxOf(strat) == IF strat = "ftemplate" THEN "f" ELSE "j"

\* the texts a context entry holds: a scalar stanza, or the items of a
\* production
TextsOf(v) ==
    IF v.t = "text" THEN { v }
    ELSE IF v.t = "db" THEN { v.items[i] : i \in { j \in 1 .. Len(v.items) : v.items[j].t = "text" } }
         ELSE {}

(* C39: every text stanza carries the strategy its defining module         *)
(* declares, ftemplate when the module declares none, whichever modules    *)
(* include it or it includes; a template is evaluated under that strategy, *)
(* and a span of the other strategy's syntax comes out as text.            *)
C39_StrategyOfDefiningModule ==
    /\ \A n \in DOMAIN ctx :
          \A text \in TextsOf(ctx[n]) : text.strat = Declared(text.path[1])
    /\ \A i \in 1 .. Len(rstack) :
          rstack[i].kind = "tmpl" =>
              /\ rstack[i].strat = Declared(rstack[i].path[1])
              /\ \A k \in 1 .. Len(rstack[i].toks) :
                    (k < rstack[i].pos /\ rstack[i].toks[k].k = "ref"
                         /\ rstack[i].toks[k].syn # SyntaxOf(Declared(rstack[i].path[1]))) =>
                        \E o \in 1 .. Len(rstack[i].out) :
                            rstack[i].out[o] = [rstack[i].toks[k] EXCEPT !.k = "lit"]
    /\ \A e \in 1 .. Len(hist.texts) :
          \A k \in 1 .. Len(hist.texts[e].toks) :
              LET tok == hist.texts[e].toks[k]
              IN (tok.k = "ref" /\ tok.syn # SyntaxOf(Declared(hist.texts[e].path[1]))) =>
                    \E o \in 1 .. Len(hist.texts[e].out) :
                        hist.texts[e].out[o] = [tok EXCEPT !.k = "lit"]

\* main declares jinja2 and includes b, which declares ftemplate: S is b's
\* stanza and carries ftemplate, and the start template of main was
\* rendered as jinja2, its f-string span left as text
C39_Witness ==
    /\ Finished("ok")
    /\ storage \in GraphStorages
    /\ storage["main"].include = << "b" >>
    /\ storage["b"].include = << >>
    /\ Owner("S") = "b"
    /\ ctx["S"].items[1].strat = "ftemplate"
    /\ ctx["Begin"].items[1].strat = "jinja2"
    /\ LastOutcome.out[1] = Lit("b")
    /\ LastOutcome.out[Len(LastOutcome.out)] = [Ref("S", "") EXCEPT !.k = "lit"]

====
